---- MODULE Spec2Model ----
(***************************************************************************)
(* Music Therapy Box: the session state machine of src/main.py together    *)
(* with the parts of the GSR channel, the HR channel and the music player  *)
(* that it drives.                                                         *)
(*                                                                         *)
(* Threads: the control thread (main_loop and everything it calls), the    *)
(* serial worker (GSRSensor._sensor_loop, which runs the button and        *)
(* message callbacks of main.py), the HR worker (HRSensor._run_sensor),    *)
(* the playback thread of the music player, and the user's SIGINT.         *)
(*                                                                         *)
(* Numbers are integers: conductance in tenths of a microsiemens, heart    *)
(* rate in BPM, song time in seconds, the clock in tenths of a second.     *)
(***************************************************************************)
EXTENDS Integers, Sequences, FiniteSets, TLC

\* ---------------------------------------------------------------- bounds
\* queue.Queue() has no capacity; the serial worker of the model stops
\* producing button events once this many are pending.
MaxPending == 2
\* Number of polls a calibration wait loop makes before its timeout expires
\* (the code polls every 0.1 s for 18 s, respectively 10 s).
CalWaitPolls == 2

\* Number of telemetry frames the serial worker processes in one run.
MaxGSRFrames == 10

\* Number of readings the HR worker publishes in one run.
MaxHRFrames == 5

\* Number of telemetry and button frames, together, the serial worker
\* receives in one run when it is fed line by line.
MaxSerialFrames == 2

\* Number of times the serial line stays silent for longer than the liveness
\* threshold.
MaxSilences == 1

\* Readings the HR worker processes when it is followed statement by
\* statement: one more than the capacity of its history.
MaxHistoryHR == 1001

\* The longest window the collector is asked for, in tenths of a second.
MaxWindowSize == 6

\* Number of readings the two sensor workers publish, together, in a run
\* that is followed through a collection.
MaxPipelineFrames == 2

\* Number of results a classifier appends in a run that follows its answers.
MaxPredictions == 3

\* Number of results the rule-based classifier appends in a run that
\* compares its scores.
MaxRBPredictions == 2

\* Number of results the classifier of src/model appends in a run that
\* follows the length of the prediction histories: one more than the
\* capacity of the history of src/ml.
MaxPredictionHistory == 1001

\* Number of consecutive reads of the serial port that raise.
MaxReadFailures == 3

\* Number of readings the two sensor workers publish, together, in a run
\* that follows the life cycle of the channels.
MaxChannelFrames == 1

\* ------------------------------------------------------ program constants
ReEvalLead == 60
quick_duration == 10
min_samples == 5
trend_window == 10
default_gsr_baseline == 0
default_hr_baseline == 70
hr_min_valid == 5
gsr_min_valid == 10
min_conductance == 1
max_conductance == 1000
history_maxlen == 1000
max_history == 1000
bpm_smoothing == 4
liveness_threshold == 100
sample_interval == 1

\* ------------------------------------------------------------ input sets
\* Optional values: None is the empty sequence, Some(x) the one-element one.
None == <<>>
Some(x) == <<x>>
Val(o) == o[1]
ButtonTypes == {"START", "STOP"}
Categories == {"stress_relief", "calming"}
Labels == {"stress", "no_stress"}
\* Song durations in seconds; a song is identified by its duration.
\* _get_file_duration never yields less than 60.
SongDurations == {60, 70, 180}
\* Baseline values a BASELINE: message may carry (GSR in tenths, HR in BPM).
BaselineGSRInputs == {30, 40}
BaselineHRInputs == {75}
\* Conductance values of telemetry frames, in tenths of a microsiemens: one
\* inside the valid range [0.1, 100.0] and one below it.
GSRInputs == {50, 0}
\* BPM values hrcalc may report.
HRBpmInputs == {72}
\* Window sizes handed to the collector: shorter than one sampling interval
\* allows, and long enough for min_samples readings.
WindowSizes == {1, MaxWindowSize}
\* What time.sleep(0.01) and the scheduler add to the clock in one iteration
\* of the collector's loop, in tenths of a second.
SleepSteps == {0, 1}
\* Numbers of valid readings a collected window may hold.
WindowValidCounts == {0, min_samples}
\* Lines the serial connection may deliver, control characters removed.
\* Conductance is written in microsiemens: "7.3" is 73 tenths.
TelemetryLines ==
    { << "GSR_CONDUCTANCE", ":", "7", ".", "3" >>,
      << "GSR_CONDUCTANCE", ":", "1", "0", "0" >>,
      << "GSR_CONDUCTANCE", ":", "0", ".", "1" >>,
      << "GSR_CONDUCTANCE", ":", "0" >> }
ButtonLines ==
    { << "BUTTON", ":", "START" >>, << "BUTTON", ":", "STOP" >> }
BaselineLines ==
    { << "BASELINE", ":", "GSR", ":", "3", ",", "HR", ":", "7", "5" >>,
      << "BASELINE", ":", "GSR", ":", "4", ".", "5", ",", "HR", ":", "8", "0" >>,
      \* the text the device prints for a value that is not a number
      << "BASELINE", ":", "GSR", ":", "nan", ",", "HR", ":", "7", "5" >> }
OtherLines ==
    { << "BASELINE_PROGRESS", ":", "1", "/", "5" >>,
      << "STATUS", ":", "IDLE" >> }
MalformedLines ==
    { << "GSR_CONDUCTANCE", ":", "abc" >>,
      << "GSR_CONDUCTANCE", ":" >>,
      << "BUTTON", ":", "PAUSE" >>,
      << "BASELINE", ":", "GSR", ":", "3" >>,
      << "BASELINE", ":", "GSR", ":", "3", ",", "HR", ":", "abc" >>,
      << "BASELINE_PROGRESS", ":", "abc" >>,
      << "XYZ", ":", "1" >> }
\* Two frames that arrive without a delimiter between them.
ConcatenatedLines ==
    { << "GSR_CONDUCTANCE", ":", "7", ".", "3",
         "GSR_CONDUCTANCE", ":", "8", ".", "1" >>,
      << "GSR_CONDUCTANCE", ":", "7", ".", "3", "BUTTON", ":", "START" >>,
      << "BUTTON", ":", "STOP", "GSR_CONDUCTANCE", ":", "7", ".", "3" >>,
      << "BUTTON", ":", "START", "BUTTON", ":", "STOP" >> }
Lines ==
    TelemetryLines \cup ButtonLines \cup BaselineLines \cup OtherLines
       \cup MalformedLines \cup ConcatenatedLines

\* One line of every kind of message the device sends.
MessageLines ==
    { << "GSR_CONDUCTANCE", ":", "7", ".", "3" >>,
      << "BUTTON", ":", "START" >>,
      << "BUTTON", ":", "STOP" >>,
      << "BASELINE", ":", "GSR", ":", "3", ",", "HR", ":", "7", "5" >>,
      << "CALIBRATION", ":", "COMPLETE" >>,
      << "SESSION", ":", "STARTED" >>,
      << "STATUS", ":", "SESSION_ACTIVE" >>,
      << "LCD", ":", "CLEAR" >> }

\* Contents of the music library after _load_music_library.
Libraries ==
    { [c \in Categories |-> IF c = "calming" THEN s ELSE {180}] :
        s \in {{}, {60}, {70}, {180}} }

VARIABLES
    state,              \* MusicTherapyBox.state
    session_active,     \* MusicTherapyBox.session_active
    running,            \* MusicTherapyBox.running
    button_queue,       \* MusicTherapyBox.button_queue (FIFO)
    pc,                 \* position of the control thread
    polls,              \* iterations made by the current calibration wait loop
    baseline_data,      \* GSRSensor.baseline_data
    baseline_bpm,       \* HRSensor.baseline_bpm
    readings_history,   \* GSRSensor.readings_history
    latest_reading,     \* GSRSensor.latest_reading
    line,               \* local of _sensor_loop: the line read, not yet processed
    now,                \* time.time(), in tenths of a second
    hr_bpm,             \* HRSensor.bpm
    bpm_history,        \* HRSensor.bpm_history
    hr_latest_reading,  \* HRSensor.latest_reading
    hr_readings_history,\* HRSensor.readings_history
    songs,              \* MusicPlayer.songs
    current_song,       \* MusicPlayer.current_song (its duration)
    playing,            \* MusicPlayer.playing
    play_clock,         \* seconds since play() was called
    loop_ran,           \* the playback loop has run since the last clock step
    re_evaluation_time, \* local of _handle_playback_loop
    window,             \* the DataWindow of the current session cycle
    reeval_count,       \* history: re-evaluations made for the current item
    prediction,         \* local of run_therapy_session
    music_category,     \* local of run_therapy_session
    cal_branch,         \* history: branch run_calibration took at main.py:319
    cal_baseline_msg,   \* history: a BASELINE: message was stored in this calibration
    stop_enqueued_in,   \* history: state in which a Stop was enqueued since
                        \* the current calibration or session began
    hr_worker_at,       \* statement the HR worker is about to execute
    hr_arrived,         \* history: every HR reading processed, in order
    collector,          \* locals of collect_window / collect_quick_sample
    collected,          \* the value the collector returned
    last_features,      \* features of the caller after extract_features
    last_prediction,    \* prediction of the caller
    stress_predictor,   \* MusicTherapyBox.stress_predictor: the StressPredictor
                        \* of src/model, None before it is constructed
    rb_predictor,       \* a StressPredictor of src/ml (the rule-based class)
    gsr_connected,      \* GSRSensor.connected
    gsr_running,        \* GSRSensor.running
    gsr_stop_event,     \* GSRSensor._stop_event is set
    gsr_thread,         \* GSRSensor._thread: position of the serial worker
    hr_connected,       \* HRSensor.connected
    hr_running,         \* HRSensor.running
    hr_stop_event,      \* HRSensor._stop_event is set
    hr_thread,          \* HRSensor._thread: position of the HR worker
    read_failures,      \* history: reads of the serial worker that raised
    gsr_orphan,         \* position of a GSR worker of an earlier start_sensor
                        \* that is still in its loop, "none" without one
    hr_orphan,          \* the same for the HR channel
    reader,             \* locals of a call of HRSensor.get_readings_in_timeframe
                        \* on the control thread, and what it returned
    pygame_available,   \* MusicPlayer.pygame_available
    player_stop_event,  \* MusicPlayer._stop_event is set
    playback_thread,    \* position of the thread started by play()
    play_pc,            \* position of the caller of play()
    exit_code           \* the value main() returned after a failed
                        \* initialization, None otherwise

vars == <<state, session_active, running, button_queue, pc, polls,
          baseline_data, baseline_bpm, readings_history, latest_reading,
          line, now,
          hr_bpm, bpm_history, hr_latest_reading, hr_readings_history, songs, current_song, playing,
          play_clock, loop_ran, re_evaluation_time, window, reeval_count,
          prediction, music_category,
          cal_branch, cal_baseline_msg, stop_enqueued_in,
          hr_worker_at, hr_arrived,
          collector, collected, last_features, last_prediction,
          stress_predictor, rb_predictor,
          gsr_connected, gsr_running, gsr_stop_event, gsr_thread,
          hr_connected, hr_running, hr_stop_event, hr_thread, read_failures,
          pygame_available, player_stop_event, playback_thread, play_pc,
          gsr_orphan, hr_orphan, reader, exit_code>>

sessionVars == <<songs, current_song, playing, play_clock, loop_ran,
                 re_evaluation_time, window, reeval_count, prediction,
                 music_category>>
calVars == <<polls, cal_branch, cal_baseline_msg, stop_enqueued_in>>
gsrVars == <<readings_history, latest_reading, line, now>>
hrVars == <<hr_bpm, bpm_history, hr_latest_reading, hr_readings_history>>
stepVars == <<hr_worker_at, hr_arrived>>
pipeVars == <<collector, collected, last_features, last_prediction>>
predVars == <<stress_predictor, rb_predictor>>
chanVars == <<gsr_connected, gsr_running, gsr_stop_event, gsr_thread,
              hr_connected, hr_running, hr_stop_event, hr_thread,
              read_failures>>
bootVars == <<exit_code>>
playerVars == <<pygame_available, player_stop_event, playback_thread, play_pc>>
orphanVars == <<gsr_orphan, hr_orphan>>
readerVars == <<reader>>

\* ---------------------------------------------------------------- helpers
BaselineData(g, h, src) == [gsr_baseline |-> g, hr_baseline |-> h, source |-> src]

has_baseline_data == baseline_data # None

hr_has_baseline_data == baseline_bpm # None

set_default_baseline ==
    Some(BaselineData(default_gsr_baseline, default_hr_baseline, "default"))

\* A mapping with the two categories exchanged.
_map_prediction_to_music_Exchanged(label) ==
    IF label = "stress" THEN "calming" ELSE "stress_relief"

\* MusicTherapyBox._map_prediction_to_music
_map_prediction_to_music(label) ==
    IF label = "stress" THEN "stress_relief" ELSE "calming"

\* Positions of the control thread inside the try block of run_calibration.
CalTryPcs == {"cal_gsr_wait", "cal_gsr_decide", "cal_hr_wait", "cal_hr_finish"}
\* Positions inside the try/finally of run_therapy_session.
SessionPcs == {"session_loop", "window", "playback", "stop_cleanup"}

\* --------------------------------------------------------- exact numbers
\* The classifiers compute with floats; the model computes the same
\* expressions exactly, on fractions n/d in lowest terms with d > 0.
RECURSIVE GCD(_, _)
GCD(a, b) == IF b = 0 THEN a ELSE GCD(b, a % b)

Abs(x) == IF x < 0 THEN 0 - x ELSE x

Q(n, d) ==
    LET g == GCD(Abs(n), d)
    IN [n |-> IF n < 0 THEN 0 - (Abs(n) \div g) ELSE n \div g, d |-> d \div g]

QAdd(a, b) == Q(a.n * b.d + b.n * a.d, a.d * b.d)
QSub(a, b) == Q(a.n * b.d - b.n * a.d, a.d * b.d)
QMul(a, b) == Q(a.n * b.n, a.d * b.d)
\* a / b for b > 0
QDiv(a, b) == Q(a.n * b.d, a.d * b.n)
QLeq(a, b) == a.n * b.d <= b.n * a.d
QLt(a, b) == a.n * b.d < b.n * a.d

\* ------------------------------------- the classifier of src/model
\* StressPredictor.__init__ and _load_model: exists is what os.path.exists
\* answers and load_ok whether joblib.load returns a model.
_load_model(exists, load_ok) ==
    IF exists /\ load_ok
    THEN [model |-> "forest", loaded |-> TRUE, ready |-> TRUE,
          prediction_history |-> << >>]
    ELSE [model |-> "none", loaded |-> FALSE, ready |-> FALSE,
          prediction_history |-> << >>]

\* MusicTherapyBox.__init__, and the histories of the model at their start.
Constructed ==
    /\ state = "idle"
    /\ session_active = FALSE
    /\ running = TRUE
    /\ button_queue = <<>>
    /\ polls = 0
    /\ baseline_data = None
    /\ baseline_bpm = None
    /\ readings_history = <<>>
    /\ latest_reading = None
    /\ line = None
    /\ now = 0
    /\ hr_bpm = 0
    /\ bpm_history = <<>>
    /\ hr_latest_reading = None
    /\ hr_readings_history = <<>>
    /\ songs \in Libraries
    /\ current_song = None
    /\ playing = FALSE
    /\ play_clock = 0
    /\ loop_ran = FALSE
    /\ re_evaluation_time = None
    /\ window = None
    /\ reeval_count = 0
    /\ prediction = "none"
    /\ music_category = "none"
    /\ cal_branch = "none"
    /\ cal_baseline_msg = FALSE
    /\ stop_enqueued_in = "none"
    /\ hr_worker_at = "latest"
    /\ hr_arrived = <<>>
    /\ collector = [pc |-> "idle", mode |-> "window", window_size |-> 0,
                    start_time |-> 0, last_sample_time |-> 0,
                    readings |-> << >>, ticks |-> 0, baseline |-> None]
    /\ collected = None
    /\ last_features = None
    /\ last_prediction = "none"
    /\ rb_predictor = None
    /\ read_failures = 0
    /\ exit_code = None
    /\ player_stop_event = FALSE
    /\ gsr_orphan = "none"
    /\ hr_orphan = "none"
    /\ reader = [at |-> "idle", cutoff_time |-> 0, index |-> 0,
                 called_with |-> << >>, returned |-> << >>]
    /\ playback_thread = "none"
    /\ play_pc = "idle"

\* The state in which main_loop is entered: initialize_hardware has
\* returned True, so that every module reported ready.
MainLoopEntered ==
    /\ pc = "main"
    /\ stress_predictor = Some(_load_model(TRUE, TRUE))
    /\ gsr_connected = TRUE
    /\ gsr_running = TRUE
    /\ gsr_stop_event = FALSE
    /\ gsr_thread = "test"
    /\ hr_connected = TRUE
    /\ hr_running = TRUE
    /\ hr_stop_event = FALSE
    /\ hr_thread = "test"

\* pygame is installed on the device.
Init ==
    /\ Constructed
    /\ MainLoopEntered
    /\ pygame_available = TRUE

\* The state in which main() calls initialize_hardware.
InitBoot ==
    /\ Constructed
    /\ pygame_available = TRUE
    /\ songs = [c \in Categories |-> {180}]
    /\ pc = "boot"
    /\ stress_predictor = None
    /\ gsr_connected = FALSE
    /\ gsr_running = FALSE
    /\ gsr_stop_event = FALSE
    /\ gsr_thread = "none"
    /\ hr_connected = FALSE
    /\ hr_running = FALSE
    /\ hr_stop_event = FALSE
    /\ hr_thread = "none"

\* ------------------------------------------------------- serial worker
\* _process_button_event -> _handle_arduino_button_event: put() on the queue.
ButtonFrame ==
    /\ running
    /\ Len(button_queue) < MaxPending
    /\ \E b \in ButtonTypes :
         /\ button_queue' = Append(button_queue, b)
         /\ stop_enqueued_in' =
               IF b = "STOP" /\ state \in {"calibrating", "session_active"}
               THEN state ELSE stop_enqueued_in
    /\ UNCHANGED <<predVars, chanVars, bootVars, readerVars, playerVars, orphanVars, stepVars, pipeVars, state, session_active, running, pc, baseline_data,
                   baseline_bpm, gsrVars, hrVars, sessionVars, polls,
                   cal_branch, cal_baseline_msg>>

\* _process_arduino_message -> _parse_and_store_baseline_data, well-formed
\* payload: the record is replaced whatever the session state is.
BaselineFrame ==
    /\ running
    /\ \E g \in BaselineGSRInputs, h \in BaselineHRInputs :
          baseline_data' = Some(BaselineData(g, h, "arduino"))
    /\ cal_baseline_msg' = (cal_baseline_msg \/ state = "calibrating")
    /\ UNCHANGED <<predVars, chanVars, bootVars, readerVars, playerVars, orphanVars, stepVars, pipeVars, state, session_active, running, button_queue, pc, polls,
                   baseline_bpm, gsrVars, hrVars, sessionVars, cal_branch,
                   stop_enqueued_in>>

\* _process_data, lines 199-211: the reading of a telemetry frame with a
\* numeric value is published.
GSRPublish ==
    \E c \in GSRInputs :
         LET reading == [conductance |-> c,
                         timestamp |-> now,
                         valid |-> (min_conductance <= c /\ c <= max_conductance)]
         IN /\ latest_reading' = Some(reading)
            /\ readings_history' =
                  IF Len(readings_history) = history_maxlen
                  THEN Append(Tail(readings_history), reading)
                  ELSE Append(readings_history, reading)

\* _process_data, lines 199-211: a telemetry frame with a numeric value.
GSRFrame ==
    /\ running
    /\ Len(readings_history) < MaxGSRFrames
    /\ GSRPublish
    /\ UNCHANGED <<predVars, chanVars, bootVars, readerVars, playerVars, orphanVars, stepVars, pipeVars, state, session_active, running, button_queue, pc,
                   baseline_data, baseline_bpm, line, now, hrVars,
                   sessionVars, calVars>>

\* GSRSensor.calculate_baseline: mean conductance of the valid readings of
\* the time frame, None with fewer than 10 of them.  Every history entry of
\* the model lies inside the time frame.
RECURSIVE SumConductance(_)
SumConductance(rs) ==
    IF rs = <<>> THEN 0 ELSE Head(rs).conductance + SumConductance(Tail(rs))

calculate_baseline ==
    LET valid_readings == SelectSeq(readings_history, LAMBDA r : r.valid)
    IN IF Len(valid_readings) >= gsr_min_valid
       THEN Some(SumConductance(valid_readings) \div Len(valid_readings))
       ELSE None

\* ---------------------------------------------- serial worker, by line
\* Text is a sequence of tokens.  A token is a piece of text that no
\* operation of the worker cuts in two: the name of a prefix, a separator
\* (":", ",", "/"), a word of a payload, or one character of a numeral.
prefixes ==
    << "GSR_CONDUCTANCE", "BUTTON", "BASELINE", "BASELINE_PROGRESS",
       "CALIBRATION", "SESSION", "STATUS", "LCD" >>

DigitChars == << "0", "1", "2", "3", "4", "5", "6", "7", "8", "9" >>

Digits == { DigitChars[i] : i \in 1..10 }

DigitValue(d) == (CHOOSE i \in 1..10 : DigitChars[i] = d) - 1

\* float('nan'): a value outside every range of the program.
NaN == -1000000

\* The text p + ":" occurs in m at position i.
PrefixAt(m, i, p) == i + 1 <= Len(m) /\ m[i] = p /\ m[i + 1] = ":"

\* str.count(prefix)
Count(m, p) == Cardinality({ i \in 1..Len(m) : PrefixAt(m, i, p) })

\* str.startswith(prefix)
startswith(m, p) == PrefixAt(m, 1, p)

\* str.split(prefix) for a prefix p + ":".
RECURSIVE split(_, _)
split(m, p) ==
    LET occ == { i \in 1..Len(m) : PrefixAt(m, i, p) }
    IN IF occ = {} THEN << m >>
       ELSE LET i == CHOOSE j \in occ : \A k \in occ : j <= k
            IN << SubSeq(m, 1, i - 1) >> \o split(SubSeq(m, i + 2, Len(m)), p)

\* str.split(sep) for a separator of one token.
RECURSIVE SplitOn(_, _)
SplitOn(m, sep) ==
    LET occ == { i \in 1..Len(m) : m[i] = sep }
    IN IF occ = {} THEN << m >>
       ELSE LET i == CHOOSE j \in occ : \A k \in occ : j <= k
            IN << SubSeq(m, 1, i - 1) >> \o SplitOn(SubSeq(m, i + 1, Len(m)), sep)

\* _sensor_loop, lines 122-141: the list of messages made from one line.
\* The first prefix of the list that occurs more than once splits the line;
\* a line in which no prefix occurs twice is one message.
SplitMessages(l) ==
    LET multi == { k \in 1..Len(prefixes) : Count(l, prefixes[k]) > 1 }
    IN IF multi = {} THEN << l >>
       ELSE LET k == CHOOSE j \in multi : \A i \in multi : j <= i
                prefix == << prefixes[k], ":" >>
                parts == split(l, prefixes[k])
                rest == SelectSeq(Tail(parts), LAMBDA x : x # << >>)
            IN << parts[1] \o prefix >>
                  \o [ i \in 1..Len(rest) |-> prefix \o rest[i] ]

\* The longest run of digits at the start of a text.
RECURSIVE DigitRun(_)
DigitRun(t) ==
    IF t # << >> /\ Head(t) \in Digits
    THEN << Head(t) >> \o DigitRun(Tail(t)) ELSE << >>

RECURSIVE IntOf(_)
IntOf(ds) ==
    IF ds = << >> THEN 0
    ELSE IntOf(SubSeq(ds, 1, Len(ds) - 1)) * 10 + DigitValue(ds[Len(ds)])

\* The numeral at the start of a text, as [-+]?[0-9]*\.?[0-9]+ matches it:
\* sign, integer digits, fraction digits and the text left over; None when
\* the expression does not match.
Numeral(t) ==
    LET signed == t # << >> /\ Head(t) \in {"-", "+"}
        body == IF signed THEN Tail(t) ELSE t
        d1 == DigitRun(body)
        after == SubSeq(body, Len(d1) + 1, Len(body))
        d2 == IF after # << >> /\ Head(after) = "."
              THEN DigitRun(Tail(after)) ELSE << >>
        used == Len(d1) + (IF d2 # << >> THEN 1 + Len(d2) ELSE 0)
    IN IF d1 = << >> /\ d2 = << >> THEN None
       ELSE Some([neg |-> signed /\ Head(t) = "-", int |-> d1, frac |-> d2,
                  rest |-> SubSeq(body, used + 1, Len(body))])

\* The value of a numeral in tenths; the numerals of the model have at most
\* one fraction digit.
Tenths(n) ==
    LET magnitude == IntOf(n.int) * 10
                     + (IF n.frac = << >> THEN 0 ELSE DigitValue(n.frac[1]))
    IN IF n.neg THEN 0 - magnitude ELSE magnitude

\* float(text): a whole decimal numeral (a final "." is allowed) or nan;
\* None stands for ValueError.
float(t) ==
    IF t = << "nan" >> THEN Some(NaN)
    ELSE LET n == Numeral(t)
         IN IF n = None THEN None
            ELSE IF Val(n).rest = << >>
                    \/ (Val(n).rest = << "." >> /\ Val(n).frac = << >>)
                 THEN Some(Tenths(Val(n)))
                 ELSE None

\* What the worker writes: the channel's latest reading and history, the
\* baseline record and, through the button callback, the button queue.
WorkerState ==
    [latest |-> latest_reading, history |-> readings_history,
     baseline |-> baseline_data, queue |-> button_queue]

\* _process_data without the assignment of line 210: the reading goes to the
\* history only.
_process_data_KeepsLatest(w, data_line, t) ==
    LET numeric_part == Numeral(SubSeq(data_line, 3, Len(data_line)))
    IN IF numeric_part = None THEN w
       ELSE LET conductance == Tenths(Val(numeric_part))
                reading == [conductance |-> conductance,
                            timestamp |-> t,
                            valid |-> (min_conductance <= conductance
                                       /\ conductance <= max_conductance)]
            IN [w EXCEPT !.history = Append(w.history, reading)]

\* _process_data, lines 169-216.
_process_data(w, data_line, t) ==
    LET numeric_part == Numeral(SubSeq(data_line, 3, Len(data_line)))
    IN IF numeric_part = None THEN w
       ELSE LET conductance == Tenths(Val(numeric_part))
                reading == [conductance |-> conductance,
                            timestamp |-> t,
                            valid |-> (min_conductance <= conductance
                                       /\ conductance <= max_conductance)]
            IN [w EXCEPT !.latest = Some(reading),
                         !.history =
                            IF Len(w.history) = history_maxlen
                            THEN Append(Tail(w.history), reading)
                            ELSE Append(w.history, reading)]

\* _process_button_event taking every payload other than START for a Stop.
_process_button_event_UnknownIsStop(w, data_line) ==
    LET button_type == SplitOn(data_line, ":")[2]
    IN IF button_type = << "START" >>
       THEN [w EXCEPT !.queue = Append(w.queue, "START")]
       ELSE [w EXCEPT !.queue = Append(w.queue, "STOP")]

\* _process_button_event, lines 218-231, and the callback
\* _handle_arduino_button_event of main.py.
_process_button_event(w, data_line) ==
    LET button_type == SplitOn(data_line, ":")[2]
    IN IF button_type = << "START" >>
       THEN [w EXCEPT !.queue = Append(w.queue, "START")]
       ELSE IF button_type = << "STOP" >>
       THEN [w EXCEPT !.queue = Append(w.queue, "STOP")]
       ELSE w

\* _parse_and_store_baseline_data, lines 266-273: the loop over the parts;
\* ok is FALSE once float() has raised.
RECURSIVE ParseBaselineParts(_, _)
ParseBaselineParts(parts, acc) ==
    IF parts = << >> \/ ~acc.ok THEN acc
    ELSE LET part == Head(parts)
             value == float(SplitOn(part, ":")[2])
         IN IF startswith(part, "GSR")
            THEN ParseBaselineParts(Tail(parts),
                    IF value = None THEN [acc EXCEPT !.ok = FALSE]
                    ELSE [acc EXCEPT !.gsr_value = value])
            ELSE IF startswith(part, "HR")
            THEN ParseBaselineParts(Tail(parts),
                    IF value = None THEN [acc EXCEPT !.ok = FALSE]
                    ELSE [acc EXCEPT !.hr_value = value])
            ELSE ParseBaselineParts(Tail(parts), acc)

\* _parse_and_store_baseline_data storing whatever field it could parse and
\* keeping the other field of the record it replaces.
_parse_and_store_baseline_data_Partial(w, message) ==
    LET data_part == SubSeq(message, 3, Len(message))
        parsed == ParseBaselineParts(SplitOn(data_part, ","),
                     [ok |-> TRUE, gsr_value |-> None, hr_value |-> None])
        kept == IF w.baseline = None
                THEN BaselineData(default_gsr_baseline, default_hr_baseline,
                                  "arduino")
                ELSE Val(w.baseline)
    IN IF parsed.gsr_value # None \/ parsed.hr_value # None
       THEN [w EXCEPT !.baseline =
                Some(BaselineData(
                   IF parsed.gsr_value # None THEN Val(parsed.gsr_value)
                   ELSE kept.gsr_baseline,
                   IF parsed.hr_value # None THEN Val(parsed.hr_value)
                   ELSE kept.hr_baseline, "arduino"))]
       ELSE w

\* _parse_and_store_baseline_data, lines 258-287.
_parse_and_store_baseline_data(w, message) ==
    LET data_part == SubSeq(message, 3, Len(message))
        parsed == ParseBaselineParts(SplitOn(data_part, ","),
                     [ok |-> TRUE, gsr_value |-> None, hr_value |-> None])
    IN IF parsed.ok /\ parsed.gsr_value # None /\ parsed.hr_value # None
       THEN [w EXCEPT !.baseline =
                Some(BaselineData(Val(parsed.gsr_value),
                                  Val(parsed.hr_value), "arduino"))]
       ELSE w

\* _process_arduino_message, lines 233-256; the message callback of main.py
\* writes to the log and the display only.
_process_arduino_message(w, data_line) ==
    IF startswith(data_line, "BASELINE")
    THEN _parse_and_store_baseline_data(w, data_line)
    ELSE w

\* _sensor_loop, lines 144-158: one message is sent to its handler.
ProcessMessage(w, message, t) ==
    IF startswith(message, "GSR_CONDUCTANCE") THEN _process_data(w, message, t)
    ELSE IF startswith(message, "BUTTON") THEN _process_button_event(w, message)
    ELSE IF \E k \in 3..Len(prefixes) : startswith(message, prefixes[k])
    THEN _process_arduino_message(w, message)
    ELSE w

RECURSIVE ProcessMessages(_, _, _)
ProcessMessages(w, messages, t) ==
    IF messages = << >> THEN w
    ELSE ProcessMessages(ProcessMessage(w, Head(messages), t),
                         Tail(messages), t)

\* _sensor_loop, line 98: readline() returns the next line.
ReadLine ==
    /\ running
    /\ line = None
    /\ \E l \in Lines :
         /\ Len(readings_history) + Len(button_queue)
               + Count(l, "GSR_CONDUCTANCE") + Count(l, "BUTTON")
               <= MaxSerialFrames
         /\ line' = Some(l)
    /\ UNCHANGED <<predVars, chanVars, bootVars, readerVars, playerVars, orphanVars, stepVars, pipeVars, state, session_active, running, button_queue, pc,
                   baseline_data, baseline_bpm, readings_history,
                   latest_reading, now, hrVars, sessionVars, calVars>>

\* _sensor_loop, lines 100-158: the line l is split into messages and every
\* message is handled.
HandleLine(l) ==
    LET messages == SplitMessages(l)
        w == ProcessMessages(WorkerState, messages, now)
        fresh == ProcessMessages([WorkerState EXCEPT !.baseline = None,
                                                     !.queue = << >>],
                                 messages, now)
    IN /\ latest_reading' = w.latest
       /\ readings_history' = w.history
       /\ baseline_data' = w.baseline
       /\ button_queue' = w.queue
       /\ cal_baseline_msg' =
             (cal_baseline_msg
                 \/ (state = "calibrating" /\ fresh.baseline # None))
       /\ stop_enqueued_in' =
             IF state \in {"calibrating", "session_active"}
                /\ \E i \in 1..Len(fresh.queue) : fresh.queue[i] = "STOP"
             THEN state ELSE stop_enqueued_in

ProcessLine ==
    /\ line # None
    /\ HandleLine(Val(line))
    /\ line' = None
    /\ UNCHANGED <<predVars, chanVars, bootVars, readerVars, playerVars, orphanVars, stepVars, pipeVars, state, session_active, running, pc, baseline_bpm, now,
                   hrVars, sessionVars, polls, cal_branch>>

\* A worker whose button callback acts on a STOP itself instead of leaving
\* it to the control thread.
SerialPass_StopSetsStopping(l) ==
    /\ running
    /\ line = None
    /\ HandleLine(l)
    /\ state' = IF startswith(l, "BUTTON") /\ l[3] = "STOP" /\ state # "idle"
                THEN "stopping" ELSE state
    /\ UNCHANGED <<predVars, chanVars, bootVars, readerVars, playerVars, orphanVars, stepVars, pipeVars, session_active, running, pc, baseline_bpm, now,
                   line, hrVars, sessionVars, polls, cal_branch>>

\* _sensor_loop, lines 95-160: one pass of the loop body in which readline
\* returns the line l.
SerialPass(l) ==
    /\ running
    /\ line = None
    /\ HandleLine(l)
    /\ UNCHANGED <<predVars, chanVars, bootVars, readerVars, playerVars, orphanVars, stepVars, pipeVars, state, session_active, running, pc, baseline_bpm, now,
                   line, hrVars, sessionVars, polls, cal_branch>>

\* The serial line stays silent for longer than the liveness threshold.
TimePasses ==
    /\ now < MaxSilences * (liveness_threshold + 1)
    /\ now' = now + liveness_threshold + 1
    /\ UNCHANGED <<predVars, chanVars, bootVars, readerVars, playerVars, orphanVars, stepVars, pipeVars, state, session_active, running, button_queue, pc,
                   baseline_data, baseline_bpm, readings_history,
                   latest_reading, line, hrVars, sessionVars, calVars>>

\* GSRSensor.read_gsr
read_gsr ==
    IF latest_reading # None /\ Val(latest_reading).valid
    THEN Some(Val(latest_reading).conductance) ELSE None

\* ------------------------------------------------------------ HR worker
\* The last n elements of a sequence.
LastN(q, n) == IF Len(q) <= n THEN q ELSE SubSeq(q, Len(q) - n + 1, Len(q))

RECURSIVE SumSeq(_)
SumSeq(q) == IF q = <<>> THEN 0 ELSE Head(q) + SumSeq(Tail(q))

\* _calculate_vitals, lines 165-227: finger says whether the mean IR or red
\* level reaches the detection threshold, bpm and valid are hrcalc's answer.
HRPublish ==
    \E finger \in BOOLEAN, valid \in BOOLEAN, bpm \in HRBpmInputs :
         LET valid_bpm == finger /\ valid
             history == IF valid_bpm
                        THEN LastN(Append(bpm_history, bpm), bpm_smoothing)
                        ELSE bpm_history
             new_bpm == IF ~finger THEN 0
                        ELSE IF valid_bpm THEN SumSeq(history) \div Len(history)
                        ELSE hr_bpm
             reading == [bpm |-> new_bpm, timestamp |-> now,
                         valid_bpm |-> valid_bpm, finger_detected |-> finger]
         IN /\ bpm_history' = history
            /\ hr_bpm' = new_bpm
            /\ hr_latest_reading' = Some(reading)
            /\ hr_readings_history' =
                  LastN(Append(hr_readings_history, reading), max_history)

\* _run_sensor, line 141: one call of _calculate_vitals.
HRVitals ==
    /\ running
    /\ Len(hr_readings_history) < MaxHRFrames
    /\ HRPublish
    /\ UNCHANGED <<predVars, chanVars, bootVars, readerVars, playerVars, orphanVars, stepVars, pipeVars, state, session_active, running, button_queue, pc,
                   baseline_data, baseline_bpm, gsrVars, sessionVars, calVars>>

\* HeartRateSensor.read_max30106_HR
read_max30106_HR ==
    IF hr_latest_reading # None /\ Val(hr_latest_reading).finger_detected
    THEN Some(Val(hr_latest_reading).bpm) ELSE None

\* ----------------------------------- the HR worker, statement by statement
\* _calculate_vitals, lines 196-222, for a batch taken a tenth after the
\* previous one with a finger on the sensor and a valid BPM: the reading is
\* built and published.
HRStoreLatest ==
    /\ running
    /\ hr_worker_at = "latest"
    /\ Len(hr_arrived) < MaxHistoryHR
    /\ now' = now + 1
    /\ \E bpm \in HRBpmInputs :
         LET history == LastN(Append(bpm_history, bpm), bpm_smoothing)
             new_bpm == SumSeq(history) \div Len(history)
             reading == [bpm |-> new_bpm, timestamp |-> now',
                         valid_bpm |-> TRUE, finger_detected |-> TRUE]
         IN /\ bpm_history' = history
            /\ hr_bpm' = new_bpm
            /\ hr_latest_reading' = Some(reading)
            /\ hr_arrived' = Append(hr_arrived, reading)
    /\ hr_worker_at' = "append"
    /\ UNCHANGED <<predVars, chanVars, bootVars, readerVars, playerVars, orphanVars, pipeVars, state, session_active, running, button_queue, pc,
                   baseline_data, baseline_bpm, readings_history,
                   latest_reading, line, hr_readings_history, sessionVars,
                   calVars>>

\* _calculate_vitals, line 225: append to the list.
HRAppendHistory ==
    /\ hr_worker_at = "append"
    /\ hr_readings_history' =
          Append(hr_readings_history, Val(hr_latest_reading))
    /\ hr_worker_at' = "trim"
    /\ UNCHANGED <<predVars, chanVars, bootVars, readerVars, playerVars, orphanVars, pipeVars, state, session_active, running, button_queue, pc,
                   baseline_data, baseline_bpm, gsrVars, hr_bpm, bpm_history,
                   hr_latest_reading, sessionVars, calVars, hr_arrived>>

\* _calculate_vitals, lines 226-227: drop the oldest entry of a list longer
\* than max_history.
HRTrimHistory ==
    /\ hr_worker_at = "trim"
    /\ hr_readings_history' =
          IF Len(hr_readings_history) > max_history
          THEN Tail(hr_readings_history) ELSE hr_readings_history
    /\ hr_worker_at' = "latest"
    /\ UNCHANGED <<predVars, chanVars, bootVars, readerVars, playerVars, orphanVars, pipeVars, state, session_active, running, button_queue, pc,
                   baseline_data, baseline_bpm, gsrVars, hr_bpm, bpm_history,
                   hr_latest_reading, sessionVars, calVars, hr_arrived>>

\* ------------------------------------ a reader of the HR history, by step
\* main.py, line 352: calculate_baseline(duration_seconds=5), in tenths.
duration_seconds == 50

\* HRSensor.get_readings_in_timeframe, lines 361-365, on the control thread:
\* the emptiness test, the cutoff, and the iterator of the list
\* comprehension, which starts at the first element.
GetReadingsCall ==
    /\ reader.at = "idle"
    /\ reader' =
          IF hr_readings_history = << >>
          THEN [reader EXCEPT !.at = "returned"]
          ELSE [at |-> "iterating", cutoff_time |-> now - duration_seconds,
                index |-> 1, called_with |-> hr_readings_history,
                returned |-> << >>]
    /\ UNCHANGED <<predVars, chanVars, bootVars, playerVars, orphanVars, stepVars, pipeVars, state, session_active, running, button_queue, pc,
                   baseline_data, baseline_bpm, gsrVars, hrVars, sessionVars,
                   calVars>>

\* get_readings_in_timeframe, line 366: one step of the list iterator.  It
\* holds an index into the list the worker is changing: an index inside the
\* list yields the element that is there now, an index past the end ends the
\* comprehension and the call returns what it kept.
GetReadingsNext ==
    /\ reader.at = "iterating"
    /\ reader' =
          IF reader.index <= Len(hr_readings_history)
          THEN LET r == hr_readings_history[reader.index]
               IN [reader EXCEPT
                     !.index = @ + 1,
                     !.returned = IF r.timestamp >= reader.cutoff_time
                                  THEN Append(@, r) ELSE @]
          ELSE [reader EXCEPT !.at = "returned"]
    /\ UNCHANGED <<predVars, chanVars, bootVars, playerVars, orphanVars, stepVars, pipeVars, state, session_active, running, button_queue, pc,
                   baseline_data, baseline_bpm, gsrVars, hrVars, sessionVars,
                   calVars>>

\* ------------------------------------------- life cycle of the channels
\* A worker thread is at "none" before it is started, at "test" when it is
\* about to evaluate the condition of its while loop, at "body" inside the
\* loop and at "exited" after the loop.

\* GSRSensor.is_connected
is_connected ==
    IF ~gsr_connected \/ ~gsr_running THEN FALSE
    ELSE IF latest_reading # None
         THEN now - Val(latest_reading).timestamp < liveness_threshold
         ELSE TRUE

\* HRSensor.is_connected
hr_is_connected ==
    IF ~hr_connected \/ ~hr_running THEN FALSE ELSE TRUE

\* GSRSensor.start_sensor; port_opens is whether serial.Serial() returns in
\* the _connect of line 291.
GSRStarted(port_opens) ==
    IF ~gsr_connected /\ ~port_opens
    THEN UNCHANGED <<gsr_connected, gsr_running, gsr_stop_event, gsr_thread,
                     gsr_orphan>>
    ELSE IF gsr_running
    THEN /\ gsr_connected' = TRUE
         /\ UNCHANGED <<gsr_running, gsr_stop_event, gsr_thread, gsr_orphan>>
    ELSE /\ gsr_connected' = TRUE
         /\ gsr_running' = TRUE
         /\ gsr_stop_event' = FALSE
         /\ gsr_thread' = "test"
         /\ gsr_orphan' = IF gsr_thread \in {"test", "body"}
                          THEN gsr_thread ELSE gsr_orphan

\* HRSensor.start_sensor; sensor_ok is whether MAX30102() returns in the
\* _initialize_sensor of line 264.
HRStarted(sensor_ok) ==
    IF ~hr_connected /\ ~sensor_ok
    THEN UNCHANGED <<hr_connected, hr_running, hr_stop_event, hr_thread,
                     hr_orphan>>
    ELSE IF hr_running
    THEN /\ hr_connected' = TRUE
         /\ UNCHANGED <<hr_running, hr_stop_event, hr_thread, hr_orphan>>
    ELSE /\ hr_connected' = TRUE
         /\ hr_running' = TRUE
         /\ hr_stop_event' = FALSE
         /\ hr_thread' = "test"
         /\ hr_orphan' = IF hr_thread \in {"test", "body"}
                         THEN hr_thread ELSE hr_orphan

GSRStartSensor ==
    /\ \E port_opens \in BOOLEAN : GSRStarted(port_opens)
    /\ UNCHANGED <<hr_connected, hr_running, hr_stop_event, hr_thread,
                   read_failures, predVars, bootVars, readerVars, playerVars, hr_orphan, stepVars, pipeVars,
                   state, session_active, running, button_queue, pc,
                   baseline_data, baseline_bpm, gsrVars, hrVars, sessionVars,
                   calVars>>

HRStartSensor ==
    /\ \E sensor_ok \in BOOLEAN : HRStarted(sensor_ok)
    /\ UNCHANGED <<gsr_connected, gsr_running, gsr_stop_event, gsr_thread,
                   read_failures, predVars, bootVars, readerVars, playerVars, gsr_orphan, stepVars, pipeVars,
                   state, session_active, running, button_queue, pc,
                   baseline_data, baseline_bpm, gsrVars, hrVars, sessionVars,
                   calVars>>

\* GSRSensor.stop_sensor: the join of line 320 waits for the worker or for
\* the timeout and assigns nothing.
GSRStopSensor ==
    /\ IF ~gsr_running
       THEN UNCHANGED <<gsr_running, gsr_stop_event>>
       ELSE /\ gsr_running' = FALSE
            /\ gsr_stop_event' = TRUE
    /\ UNCHANGED <<gsr_connected, gsr_thread,
                   hr_connected, hr_running, hr_stop_event, hr_thread,
                   read_failures, predVars, bootVars, readerVars, playerVars, orphanVars, stepVars, pipeVars,
                   state, session_active, running, button_queue, pc,
                   baseline_data, baseline_bpm, gsrVars, hrVars, sessionVars,
                   calVars>>

\* HRSensor.stop_sensor: after the join the displayed BPM is reset.
HRStopSensor ==
    /\ IF ~hr_running
       THEN UNCHANGED <<hr_running, hr_stop_event, hr_bpm>>
       ELSE /\ hr_running' = FALSE
            /\ hr_stop_event' = TRUE
            /\ hr_bpm' = 0
    /\ UNCHANGED <<hr_connected, hr_thread,
                   gsr_connected, gsr_running, gsr_stop_event, gsr_thread,
                   read_failures, predVars, bootVars, readerVars, playerVars, orphanVars, stepVars, pipeVars,
                   state, session_active, running, button_queue, pc,
                   baseline_data, baseline_bpm, gsrVars, bpm_history,
                   hr_latest_reading, hr_readings_history, sessionVars,
                   calVars>>

\* A loop whose condition is always true.
GSRLoopTest_IgnoresStopEvent ==
    /\ gsr_thread = "test"
    /\ gsr_thread' = "body"
    /\ UNCHANGED <<gsr_connected, gsr_running, gsr_stop_event,
                   hr_connected, hr_running, hr_stop_event, hr_thread,
                   read_failures, predVars, bootVars, readerVars, playerVars, orphanVars, stepVars, pipeVars,
                   state, session_active, running, button_queue, pc,
                   baseline_data, baseline_bpm, gsrVars, hrVars, sessionVars,
                   calVars>>

\* _sensor_loop, line 94: the condition of the while loop.
GSRLoopTest ==
    /\ gsr_thread = "test"
    /\ gsr_thread' = IF gsr_stop_event THEN "exited" ELSE "body"
    /\ UNCHANGED <<gsr_connected, gsr_running, gsr_stop_event,
                   hr_connected, hr_running, hr_stop_event, hr_thread,
                   read_failures, predVars, bootVars, readerVars, playerVars, orphanVars, stepVars, pipeVars,
                   state, session_active, running, button_queue, pc,
                   baseline_data, baseline_bpm, gsrVars, hrVars, sessionVars,
                   calVars>>

\* _sensor_loop, lines 95-167: one pass of the loop body.  Either a
\* telemetry frame is read and its reading published, or nothing is waiting
\* and the worker sleeps, or the read raises (the port is gone) and the
\* handler of line 165 logs the error and sleeps.
GSRLoopBody ==
    /\ gsr_thread = "body"
    /\ gsr_thread' = "test"
    /\ \/ /\ GSRPublish
          /\ read_failures' = 0
       \/ UNCHANGED <<latest_reading, readings_history, read_failures>>
       \/ /\ read_failures < MaxReadFailures
          /\ read_failures' = read_failures + 1
          /\ UNCHANGED <<latest_reading, readings_history>>
    /\ UNCHANGED <<gsr_connected, gsr_running, gsr_stop_event,
                   hr_connected, hr_running, hr_stop_event, hr_thread,
                   predVars, bootVars, readerVars, playerVars, orphanVars, stepVars, pipeVars,
                   state, session_active, running, button_queue, pc,
                   baseline_data, baseline_bpm, line, now, hrVars,
                   sessionVars, calVars>>

\* _run_sensor, line 115: the condition of the while loop; after the loop
\* the sensor is shut down.
HRLoopTest ==
    /\ hr_thread = "test"
    /\ hr_thread' = IF ~hr_stop_event /\ hr_running THEN "body" ELSE "exited"
    /\ UNCHANGED <<hr_connected, hr_running, hr_stop_event,
                   gsr_connected, gsr_running, gsr_stop_event, gsr_thread,
                   read_failures, predVars, bootVars, readerVars, playerVars, orphanVars, stepVars, pipeVars,
                   state, session_active, running, button_queue, pc,
                   baseline_data, baseline_bpm, gsrVars, hrVars, sessionVars,
                   calVars>>

\* _run_sensor, lines 116-156: one pass of the loop body.  Either a batch is
\* complete and _calculate_vitals publishes a reading, or no reading is
\* published (no data, a window not yet full, or an exception caught at
\* line 154).
HRLoopBody ==
    /\ hr_thread = "body"
    /\ hr_thread' = "test"
    /\ \/ HRPublish
       \/ UNCHANGED hrVars
    /\ UNCHANGED <<hr_connected, hr_running, hr_stop_event,
                   gsr_connected, gsr_running, gsr_stop_event, gsr_thread,
                   read_failures, predVars, bootVars, readerVars, playerVars, orphanVars, stepVars, pipeVars,
                   state, session_active, running, button_queue, pc,
                   baseline_data, baseline_bpm, gsrVars, sessionVars, calVars>>

\* A GSR worker of an earlier start_sensor, which runs the same loop on the
\* same event: the condition of line 94, or one pass of the body.
GSROrphanLoop ==
    /\ gsr_orphan \in {"test", "body"}
    /\ IF gsr_orphan = "test"
       THEN /\ gsr_orphan' = IF gsr_stop_event THEN "none" ELSE "body"
            /\ UNCHANGED <<latest_reading, readings_history>>
       ELSE /\ gsr_orphan' = "test"
            /\ \/ GSRPublish
               \/ UNCHANGED <<latest_reading, readings_history>>
    /\ UNCHANGED <<chanVars, hr_orphan, predVars, bootVars, readerVars, playerVars,
                   stepVars, pipeVars, state, session_active, running,
                   button_queue, pc, baseline_data, baseline_bpm, line, now,
                   hrVars, sessionVars, calVars>>

\* An HR worker of an earlier start_sensor: the condition of line 115, or
\* one pass of the body.
HROrphanLoop ==
    /\ hr_orphan \in {"test", "body"}
    /\ IF hr_orphan = "test"
       THEN /\ hr_orphan' = IF ~hr_stop_event /\ hr_running
                            THEN "body" ELSE "none"
            /\ UNCHANGED hrVars
       ELSE /\ hr_orphan' = "test"
            /\ \/ HRPublish
               \/ UNCHANGED hrVars
    /\ UNCHANGED <<chanVars, gsr_orphan, predVars, bootVars, readerVars, playerVars,
                   stepVars, pipeVars, state, session_active, running,
                   button_queue, pc, baseline_data, baseline_bpm, gsrVars,
                   sessionVars, calVars>>

\* ---------------------------------------------------- feature extractor
\* A value of a feature map: the constant 0.0, or a statistic of the GSR
\* values and the HR values it is computed from.
Zero == [stat |-> "0.0", gsr |-> << >>, hr |-> << >>]
Term(stat, g, h) == [stat |-> stat, gsr |-> g, hr |-> h]

\* All elements of a sequence are equal: its standard deviation and its
\* range are 0.
AllEqual(v) == \A i, j \in 1..Len(v) : v[i] = v[j]

\* value > 0 for a value of a feature map.
Positive(value) ==
    CASE value.stat = "0.0" -> FALSE
      [] value.stat \in {"variability", "range", "std"} ->
            ~AllEqual(value.gsr \o value.hr)
      [] OTHER -> SumSeq(value.gsr \o value.hr) > 0

\* dict.update
update(d, e) ==
    [k \in DOMAIN d \cup DOMAIN e |-> IF k \in DOMAIN e THEN e[k] ELSE d[k]]

\* dict.get(key, 0.0)
get(d, key) == IF key \in DOMAIN d THEN d[key] ELSE Zero

\* [r.gsr_conductance for r in readings if r.gsr_conductance is not None]
RECURSIVE gsr_values(_)
gsr_values(readings) ==
    IF readings = << >> THEN << >>
    ELSE (IF Head(readings).gsr_conductance # None
          THEN << Val(Head(readings).gsr_conductance) >> ELSE << >>)
         \o gsr_values(Tail(readings))

\* [r.heart_rate for r in readings if r.heart_rate is not None]
RECURSIVE hr_values(_)
hr_values(readings) ==
    IF readings = << >> THEN << >>
    ELSE (IF Head(readings).heart_rate # None
          THEN << Val(Head(readings).heart_rate) >> ELSE << >>)
         \o hr_values(Tail(readings))

\* FeatureExtractor._extract_basic_features
_extract_basic_features(readings) ==
    LET g == gsr_values(readings)
        h == hr_values(readings)
        gsr_part ==
           IF g # << >>
           THEN [gsr_conductance |-> Term("mean", g, << >>),
                 gsr_min |-> Term("min", g, << >>),
                 gsr_max |-> Term("max", g, << >>),
                 gsr_range |-> Term("range", g, << >>)]
           ELSE [gsr_conductance |-> Zero]
        hr_part ==
           IF h # << >>
           THEN [heart_rate |-> Term("mean", << >>, h),
                 hr_min |-> Term("min", << >>, h),
                 hr_max |-> Term("max", << >>, h),
                 hr_range |-> Term("range", << >>, h)]
           ELSE [heart_rate |-> Zero]
    IN update(gsr_part, hr_part)

\* FeatureExtractor._extract_variability_features
_extract_variability_features(readings) ==
    LET g == gsr_values(readings)
        h == hr_values(readings)
        gsr_part ==
           IF Len(g) > 1
           THEN [gsr_variability |-> IF SumSeq(g) > 0
                                     THEN Term("variability", g, << >>)
                                     ELSE Zero,
                 gsr_std |-> Term("std", g, << >>)]
           ELSE [gsr_variability |-> Zero, gsr_std |-> Zero]
        hr_part ==
           IF Len(h) > 1
           THEN [hr_variability |-> IF SumSeq(h) > 0
                                    THEN Term("variability", << >>, h)
                                    ELSE Zero,
                 hr_std |-> Term("std", << >>, h)]
           ELSE [hr_variability |-> Zero, hr_std |-> Zero]
    IN update(gsr_part, hr_part)

\* FeatureExtractor._extract_trend_features
_extract_trend_features(readings) ==
    LET g == gsr_values(readings)
        h == hr_values(readings)
    IN [gsr_trend |-> IF Len(g) >= trend_window
                      THEN Term("trend", g, << >>) ELSE Zero,
        hr_trend |-> IF Len(h) >= trend_window
                     THEN Term("trend", << >>, h) ELSE Zero]

\* FeatureExtractor._extract_derived_features
_extract_derived_features(features) ==
    LET gsr_conductance == get(features, "gsr_conductance")
        heart_rate == get(features, "heart_rate")
        gsr_variability == get(features, "gsr_variability")
        hr_variability == get(features, "hr_variability")
        gsr_range == get(features, "gsr_range")
        hr_range == get(features, "hr_range")
    IN [stress_indicator |->
           Term("stress_indicator", gsr_conductance.gsr, heart_rate.hr),
        variability_ratio |->
           IF Positive(hr_variability)
           THEN Term("variability_ratio", gsr_variability.gsr,
                     hr_variability.hr)
           ELSE Zero,
        range_ratio |->
           IF Positive(hr_range)
           THEN Term("range_ratio", gsr_range.gsr, hr_range.hr)
           ELSE Zero]

\* collect_window returns a DataWindow, collect_quick_sample a list.
DataWindow(readings, start_time, end_time, baseline) ==
    [type |-> "DataWindow", readings |-> readings, start_time |-> start_time,
     end_time |-> end_time, duration |-> end_time - start_time,
     baseline |-> baseline]
List(readings) == [type |-> "list", items |-> readings]

\* FeatureExtractor.extract_features; None stands for the return value None.
\* A list has no attribute readings, and _normalize_features applies the
\* operator in to the BaselineData record of the window: both exceptions
\* end in the except clause.
extract_features(data_window) ==
    IF data_window.type = "list" THEN None
    ELSE IF data_window.readings = << >> THEN None
    ELSE LET valid_readings ==
                SelectSeq(data_window.readings, LAMBDA r : r.valid)
             basic == _extract_basic_features(valid_readings)
             varied ==
                update(basic, _extract_variability_features(valid_readings))
             trended == update(varied, _extract_trend_features(valid_readings))
             features == update(trended, _extract_derived_features(trended))
         IN IF Len(valid_readings) < min_samples THEN None
            ELSE IF data_window.baseline # None THEN None
            ELSE Some(features)

\* data_collector.SensorReading
SensorReading(gsr_reading, hr_reading, current_time) ==
    [gsr_conductance |-> gsr_reading, heart_rate |-> hr_reading,
     timestamp |-> current_time,
     valid |-> (gsr_reading # None \/ hr_reading # None)]

\* --------------------------------------------------------- data collector
\* collect_window, lines 132-137, and collect_quick_sample, lines 202-207,
\* called with the current baseline record (main.py:397-402, 479-484).
CollectStart ==
    /\ collector.pc = "idle"
    /\ \E mode \in {"window", "quick"}, window_size \in WindowSizes :
          collector' = [pc |-> "loop", mode |-> mode,
                        window_size |-> window_size,
                        start_time |-> now, last_sample_time |-> now,
                        readings |-> << >>, ticks |-> 0,
                        baseline |-> baseline_data]
    /\ collected' = None
    /\ last_features' = None
    /\ last_prediction' = "none"
    /\ UNCHANGED <<predVars, chanVars, bootVars, readerVars, playerVars, orphanVars, stepVars, state, session_active, running, button_queue,
                   pc, baseline_data, baseline_bpm, gsrVars, hrVars,
                   sessionVars, calVars>>

\* The loop iteration of a collector that keeps a reading only when a
\* sensor had a value.
CollectIterate_SkipsEmptyTick ==
    /\ collector.pc = "loop"
    /\ now - collector.start_time < collector.window_size
    /\ LET current_time == now
           reading == SensorReading(read_gsr, read_max30106_HR, current_time)
       IN collector' =
             IF current_time - collector.last_sample_time >= sample_interval
             THEN [collector EXCEPT
                     !.readings = IF reading.valid
                                  THEN Append(collector.readings, reading)
                                  ELSE collector.readings,
                     !.last_sample_time = current_time,
                     !.ticks = collector.ticks + 1]
             ELSE collector
    /\ \E slept \in SleepSteps : now' = now + slept
    /\ UNCHANGED <<predVars, chanVars, bootVars, readerVars, playerVars, orphanVars, stepVars, state, session_active, running, button_queue,
                   pc, baseline_data, baseline_bpm, readings_history,
                   latest_reading, line, hrVars, sessionVars, calVars,
                   collected, last_features, last_prediction>>

\* One iteration of the loop of collect_window (lines 139-159) or of
\* collect_quick_sample (lines 209-229): a sample is taken when a sampling
\* interval has passed since the last one, then the thread sleeps.
CollectIterate ==
    /\ collector.pc = "loop"
    /\ now - collector.start_time < collector.window_size
    /\ LET current_time == now
           reading == SensorReading(read_gsr, read_max30106_HR, current_time)
       IN collector' =
             IF current_time - collector.last_sample_time >= sample_interval
             THEN [collector EXCEPT
                     !.readings = Append(collector.readings, reading),
                     !.last_sample_time = current_time,
                     !.ticks = collector.ticks + 1]
             ELSE collector
    /\ \E slept \in SleepSteps : now' = now + slept
    /\ UNCHANGED <<predVars, chanVars, bootVars, readerVars, playerVars, orphanVars, stepVars, state, session_active, running, button_queue,
                   pc, baseline_data, baseline_bpm, readings_history,
                   latest_reading, line, hrVars, sessionVars, calVars,
                   collected, last_features, last_prediction>>

\* The loop test fails: collect_window seals a DataWindow (lines 161-182),
\* collect_quick_sample returns the list of readings (lines 231-232).
CollectReturn ==
    /\ collector.pc = "loop"
    /\ ~(now - collector.start_time < collector.window_size)
    /\ LET end_time == now
       IN collected' =
             Some(IF collector.mode = "window"
                  THEN DataWindow(collector.readings, collector.start_time,
                                  end_time, collector.baseline)
                  ELSE List(collector.readings))
    /\ collector' = [collector EXCEPT !.pc = "returned"]
    /\ UNCHANGED <<predVars, chanVars, bootVars, readerVars, playerVars, orphanVars, stepVars, state, session_active, running, button_queue,
                   pc, baseline_data, baseline_bpm, gsrVars, hrVars,
                   sessionVars, calVars, last_features, last_prediction>>

\* ------------------------------ the classifier of src/model, its calls
\* StressPredictor.is_loaded
is_loaded(self) == self.loaded /\ self.ready

\* What the loaded forest does with a feature vector: it raises, or it
\* answers a class (model.predict) and the probabilities of the two classes
\* (model.predict_proba), the class being the more probable one.
ModelOutputs ==
    { [raises |-> TRUE, prediction |-> 0, probabilities |-> << >>],
      [raises |-> FALSE, prediction |-> 0,
       probabilities |-> << Q(7, 10), Q(3, 10) >>],
      [raises |-> FALSE, prediction |-> 0,
       probabilities |-> << Q(1, 2), Q(1, 2) >>],
      [raises |-> FALSE, prediction |-> 1,
       probabilities |-> << Q(0, 1), Q(1, 1) >>] }

\* np.max(probabilities)
Max2(p) == IF QLeq(p[1], p[2]) THEN p[2] ELSE p[1]

\* predict, line 106, for an output that did not raise
Answer(output) ==
    IF output.raises THEN "no_stress"
    ELSE IF output.prediction = 1 THEN "stress" ELSE "no_stress"

\* StressPredictor.predict, lines 86-114: the predictor after the call.  The
\* result is appended when the model is ready, the features are a dictionary
\* and the model does not raise.
Predicted(self, features, output) ==
    IF self.ready /\ features # None /\ ~output.raises
    THEN [self EXCEPT !.prediction_history =
            Append(@, [stress_level |-> Answer(output),
                       confidence |-> Max2(output.probabilities),
                       timestamp |-> now])]
    ELSE self

\* StressPredictor.get_confidence (the same text in src/model and src/ml)
get_confidence(self) ==
    IF self.prediction_history # << >>
    THEN self.prediction_history[Len(self.prediction_history)].confidence
    ELSE Q(1, 2)

\* StressPredictor.feature_names
feature_names ==
    << "hr_mean", "hr_std", "hr_min", "hr_max", "hr_range", "hr_skew",
       "hr_kurtosis", "eda_mean", "eda_std", "eda_min", "eda_max",
       "eda_range", "eda_skew", "eda_kurtosis", "eda_slope" >>

\* A predict that answers as the class of src/ml does when it is not ready.
predict_NeutralWhenNotReady(features, ready, answer) ==
    IF ~ready THEN "neutral"
    ELSE IF features = None THEN "no_stress"
    ELSE answer

\* StressPredictor.predict: answer is what the loaded model answers for the
\* feature vector.  Without a model the answer is "no_stress"; features that
\* are None raise AttributeError at features.get, which predict catches.
predict(features, ready, answer) ==
    IF ~ready THEN "no_stress"
    ELSE IF features = None THEN "no_stress"
    ELSE answer

\* The feature dictionaries handed to a classifier: conductance in tenths of
\* a microsiemens, heart rate in BPM.
GSRMeans == {0, 50, 150, 250, 300}
HRMeans == {60, 70, 100, 110}
FeatureInputs ==
    { [gsr_conductance |-> g, heart_rate |-> h] : g \in GSRMeans, h \in HRMeans }

\* A call of predict with the given features and model output.
PredictWith(features, output) ==
    /\ stress_predictor # None
    /\ stress_predictor' = Some(Predicted(Val(stress_predictor), features, output))
    /\ last_features' = features
    /\ last_prediction' =
          predict(features, Val(stress_predictor).ready, Answer(output))
    /\ UNCHANGED <<rb_predictor, chanVars, bootVars, readerVars, playerVars, orphanVars, stepVars, state,
                   session_active, running, button_queue, pc, baseline_data,
                   baseline_bpm, gsrVars, hrVars, sessionVars, calVars,
                   collector, collected>>

Predict ==
    \E features \in {None} \cup { Some(f) : f \in FeatureInputs },
       output \in ModelOutputs :
        PredictWith(features, output)

\* StressPredictor(): the object is constructed and the model file loaded.
LoadModel ==
    /\ stress_predictor = None
    /\ \E exists \in BOOLEAN, load_ok \in BOOLEAN :
          stress_predictor' = Some(_load_model(exists, load_ok))
    /\ UNCHANGED <<rb_predictor, chanVars, bootVars, readerVars, playerVars, orphanVars, stepVars, pipeVars, state,
                   session_active, running, button_queue, pc, baseline_data,
                   baseline_bpm, gsrVars, hrVars, sessionVars, calVars>>

\* run_therapy_session, lines 404-419: features and prediction of a window.
PredictWindow ==
    /\ collector.pc = "returned"
    /\ collector.mode = "window"
    /\ \E output \in ModelOutputs :
         LET self == Val(stress_predictor)
             features == extract_features(Val(collected))
         IN /\ last_features' = features
            /\ last_prediction' =
                  IF features = None THEN "no_stress"
                  ELSE predict(features, self.ready, Answer(output))
            /\ stress_predictor' =
                  IF features = None THEN stress_predictor
                  ELSE Some(Predicted(self, features, output))
    /\ collector' = [collector EXCEPT !.pc = "predicted"]
    /\ UNCHANGED <<rb_predictor, chanVars, bootVars, readerVars, playerVars, orphanVars, stepVars, state, session_active, running, button_queue,
                   pc, baseline_data, baseline_bpm, gsrVars, hrVars,
                   sessionVars, calVars, collected>>

\* _perform_re_evaluation, lines 486-492: features and prediction of a quick
\* sample; an empty list is skipped.
ReEvaluate ==
    /\ collector.pc = "returned"
    /\ collector.mode = "quick"
    /\ \E output \in ModelOutputs :
         LET self == Val(stress_predictor)
             sensor_data == Val(collected)
             features == extract_features(sensor_data)
         IN IF sensor_data.items # << >>
            THEN /\ last_features' = features
                 /\ last_prediction' =
                       predict(features, self.ready, Answer(output))
                 /\ stress_predictor' =
                       Some(Predicted(self, features, output))
            ELSE UNCHANGED <<last_features, last_prediction,
                             stress_predictor>>
    /\ collector' = [collector EXCEPT !.pc = "predicted"]
    /\ UNCHANGED <<rb_predictor, chanVars, bootVars, readerVars, playerVars, orphanVars, stepVars, state, session_active, running, button_queue,
                   pc, baseline_data, baseline_bpm, gsrVars, hrVars,
                   sessionVars, calVars, collected>>

\* --------------------------------------- the classifier of src/ml
\* StressPredictor._create_fallback_model: thresholds in microsiemens and BPM.
_create_fallback_model ==
    [type |-> "rule_based",
     parameters |->
        [gsr_thresholds |-> [low |-> Q(5, 1), high |-> Q(25, 1)],
         hr_thresholds |-> [low |-> Q(60, 1), high |-> Q(100, 1)],
         weights |-> [gsr |-> Q(6, 10), hr |-> Q(4, 10)]]]

\* A model file json.load accepts but that holds no parameters.
ModelWithoutParameters == [type |-> "trained"]

\* StressPredictor.__init__ and _initialize_predictor: has_file is whether
\* model_path names an existing file, load_ok whether _load_model returns,
\* and model_data what it read.
_initialize_predictor(has_file, load_ok, model_data) ==
    [model |-> IF has_file /\ load_ok THEN model_data
               ELSE _create_fallback_model,
     loaded |-> TRUE, ready |-> TRUE, baseline_data |-> None,
     prediction_history |-> << >>]

\* StressPredictor._normalize_feature
_normalize_feature(self, value, feature_name) ==
    IF self.baseline_data = None
       \/ feature_name \notin DOMAIN Val(self.baseline_data)
    THEN value
    ELSE LET baseline_mean == Val(self.baseline_data)[feature_name].mean
             baseline_std == Val(self.baseline_data)[feature_name].std
         IN IF QLt(Q(0, 1), baseline_std)
            THEN QDiv(QSub(value, baseline_mean), baseline_std)
            ELSE QSub(value, baseline_mean)

\* A scoring that divides the distance from the low threshold by the high
\* threshold.
_calculate_gsr_score_DividesByHigh(gsr, thresholds) ==
    IF QLeq(gsr, thresholds.low) THEN Q(0, 1)
    ELSE IF QLeq(thresholds.high, gsr) THEN Q(1, 1)
    ELSE QDiv(QSub(gsr, thresholds.low), thresholds.high)

\* StressPredictor._calculate_gsr_score
_calculate_gsr_score(gsr, thresholds) ==
    IF QLeq(gsr, thresholds.low) THEN Q(0, 1)
    ELSE IF QLeq(thresholds.high, gsr) THEN Q(1, 1)
    ELSE QDiv(QSub(gsr, thresholds.low),
              QSub(thresholds.high, thresholds.low))

\* StressPredictor._calculate_hr_score
_calculate_hr_score(hr, thresholds) ==
    IF QLeq(hr, thresholds.low) THEN Q(0, 1)
    ELSE IF QLeq(thresholds.high, hr) THEN Q(1, 1)
    ELSE QDiv(QSub(hr, thresholds.low),
              QSub(thresholds.high, thresholds.low))

\* StressPredictor._score_to_stress_level: the value of the StressLevel
\* member and the confidence of its band.
_score_to_stress_level(score) ==
    IF QLeq(score, Q(2, 10)) THEN << "relaxed", Q(8, 10) >>
    ELSE IF QLeq(score, Q(4, 10)) THEN << "low_stress", Q(7, 10) >>
    ELSE IF QLeq(score, Q(6, 10)) THEN << "neutral", Q(6, 10) >>
    ELSE IF QLeq(score, Q(8, 10)) THEN << "stress", Q(7, 10) >>
    ELSE << "high_stress", Q(8, 10) >>

\* StressPredictor._rule_based_prediction
_rule_based_prediction(self, gsr, hr) ==
    LET params == self.model.parameters
        gsr_normalized ==
            IF self.baseline_data # None
            THEN _normalize_feature(self, gsr, "gsr_conductance") ELSE gsr
        hr_normalized ==
            IF self.baseline_data # None
            THEN _normalize_feature(self, hr, "heart_rate") ELSE hr
        gsr_score == _calculate_gsr_score(gsr_normalized, params.gsr_thresholds)
        hr_score == _calculate_hr_score(hr_normalized, params.hr_thresholds)
        weights == params.weights
        combined_score ==
            QAdd(QMul(gsr_score, weights.gsr), QMul(hr_score, weights.hr))
        level == _score_to_stress_level(combined_score)
    IN [stress_level |-> level[1],
        confidence |-> level[2],
        features |-> [gsr_conductance |-> gsr, heart_rate |-> hr,
                      gsr_score |-> gsr_score, hr_score |-> hr_score,
                      combined_score |-> combined_score],
        timestamp |-> now]

\* StressPredictor._make_prediction: a model without a type or without
\* parameters raises KeyError inside the try, and the result is neutral.
_make_prediction(self, gsr, hr) ==
    IF "type" \in DOMAIN self.model /\ "parameters" \in DOMAIN self.model
    THEN _rule_based_prediction(self, gsr, hr)
    ELSE [stress_level |-> "neutral", confidence |-> Q(1, 2),
          features |-> [gsr_conductance |-> gsr, heart_rate |-> hr],
          timestamp |-> now]

\* Capacity of the prediction history of src/ml.
prediction_max_history == 1000

\* features.get(key, 0.0), the value read as a fraction: conductance is kept
\* in tenths of a microsiemens.
FeatureValue(features, key, unit) ==
    IF key \in DOMAIN features THEN Q(features[key], unit) ELSE Q(0, 1)

\* StressPredictor.predict of src/ml, lines 145-172: the predictor after the
\* call and the value returned.  Features that are None raise at features.get.
rb_predict(self, features) ==
    IF ~self.ready \/ features = None
    THEN [self |-> self, value |-> "neutral"]
    ELSE LET gsr_conductance ==
                 FeatureValue(Val(features), "gsr_conductance", 10)
             heart_rate == FeatureValue(Val(features), "heart_rate", 1)
             prediction_result == _make_prediction(self, gsr_conductance, heart_rate)
             appended == Append(self.prediction_history, prediction_result)
         IN [self |-> [self EXCEPT !.prediction_history =
                          IF Len(appended) > prediction_max_history
                          THEN Tail(appended) ELSE appended],
             value |-> prediction_result.stress_level]

\* Baselines given to set_baseline: mean and standard deviation per feature,
\* in microsiemens and BPM.
BaselineStatistics ==
    { [gsr_conductance |-> [mean |-> Q(5, 1), std |-> Q(2, 1)],
       heart_rate |-> [mean |-> Q(70, 1), std |-> Q(0, 1)]] }

\* StressPredictor(model_path) of src/ml is constructed.
RBInitialize ==
    /\ rb_predictor = None
    /\ \E has_file \in BOOLEAN, load_ok \in BOOLEAN,
          model_data \in {_create_fallback_model, ModelWithoutParameters} :
          rb_predictor' = Some(_initialize_predictor(has_file, load_ok, model_data))
    /\ UNCHANGED <<stress_predictor, chanVars, bootVars, readerVars, playerVars, orphanVars, stepVars, pipeVars,
                   state, session_active, running, button_queue, pc,
                   baseline_data, baseline_bpm, gsrVars, hrVars, sessionVars,
                   calVars>>

\* StressPredictor.set_baseline
RBSetBaseline ==
    /\ rb_predictor # None
    /\ Val(rb_predictor).prediction_history = << >>
    /\ Val(rb_predictor).baseline_data = None
    /\ \E b \in BaselineStatistics :
          rb_predictor' = Some([Val(rb_predictor) EXCEPT !.baseline_data = Some(b)])
    /\ UNCHANGED <<stress_predictor, chanVars, bootVars, readerVars, playerVars, orphanVars, stepVars, pipeVars,
                   state, session_active, running, button_queue, pc,
                   baseline_data, baseline_bpm, gsrVars, hrVars, sessionVars,
                   calVars>>

\* A call of predict of src/ml with the given features.
RBPredictWith(features) ==
    /\ rb_predictor # None
    /\ LET r == rb_predict(Val(rb_predictor), features)
       IN /\ rb_predictor' = Some(r.self)
          /\ last_prediction' = r.value
    /\ last_features' = features
    /\ UNCHANGED <<stress_predictor, chanVars, bootVars, readerVars, playerVars, orphanVars, stepVars, state,
                   session_active, running, button_queue, pc, baseline_data,
                   baseline_bpm, gsrVars, hrVars, sessionVars, calVars,
                   collector, collected>>

RBPredict ==
    \E features \in {None} \cup { Some(f) : f \in FeatureInputs } :
        RBPredictWith(features)

\* ------------------------------------------------------- control thread
\* _handle_playback_loop has returned: its locals, the clock of the item and
\* the prediction and category of the cycle no longer exist.
PlaybackLocalsGone ==
    /\ play_clock' = 0
    /\ loop_ran' = FALSE
    /\ re_evaluation_time' = None
    /\ reeval_count' = 0
    /\ prediction' = "none"
    /\ music_category' = "none"

\* run_calibration has returned and its result was used: its locals and the
\* history kept about it no longer exist.
CalibrationLocalsGone ==
    /\ polls' = 0
    /\ cal_branch' = "none"
    /\ cal_baseline_msg' = FALSE
    /\ stop_enqueued_in' = "none"

\* stop_session up to the return of music_player.stop().
StopSessionEffect ==
    /\ state' = "stopping"
    /\ session_active' = FALSE
    /\ playing' = FALSE
    /\ pc' = "stop_cleanup"

\* run_calibration, lines 285-298: entry.
RunCalibrationEntry ==
    /\ state' = "calibrating"
    /\ pc' = "cal_gsr_wait"
    /\ polls' = 0
    /\ cal_branch' = "none"
    /\ cal_baseline_msg' = FALSE
    /\ stop_enqueued_in' = "none"

\* handle_button_events with the run_calibration() call left out: a Start in
\* Idle goes straight into the session.
HandleButtonEvents_NoCalibration ==
    /\ pc = "main"
    /\ running
    /\ button_queue # <<>>
    /\ button_queue' = Tail(button_queue)
    /\ LET ev == Head(button_queue) IN
         IF ev = "START" /\ state = "idle"
         THEN /\ state' = "session_active"
              /\ session_active' = TRUE
              /\ pc' = "session_loop"
              /\ UNCHANGED <<predVars, chanVars, bootVars, readerVars, playerVars, orphanVars, stepVars, pipeVars, running, baseline_data, baseline_bpm, gsrVars,
                             hrVars, sessionVars, calVars>>
         ELSE UNCHANGED <<predVars, chanVars, bootVars, readerVars, playerVars, orphanVars, stepVars, pipeVars, state, session_active, running, pc, baseline_data,
                          baseline_bpm, gsrVars, hrVars, sessionVars, calVars>>

\* handle_button_events as called by main_loop, with an event in the queue
\* (get_nowait on an empty queue raises queue.Empty and nothing happens).
HandleButtonEvents ==
    /\ pc = "main"
    /\ running
    /\ button_queue # <<>>
    /\ button_queue' = Tail(button_queue)
    /\ LET ev == Head(button_queue) IN
         IF ev = "START" /\ state = "idle"
         THEN /\ RunCalibrationEntry
              /\ UNCHANGED <<predVars, chanVars, bootVars, readerVars, playerVars, orphanVars, stepVars, pipeVars, session_active, running, baseline_data,
                             baseline_bpm, gsrVars, hrVars, sessionVars>>
         ELSE IF ev = "STOP" /\ state \in {"session_active", "calibrating"}
         THEN /\ StopSessionEffect
              /\ UNCHANGED <<predVars, chanVars, bootVars, readerVars, playerVars, orphanVars, stepVars, pipeVars, running, baseline_data, baseline_bpm, gsrVars,
                             hrVars, songs, current_song, play_clock,
                             loop_ran, re_evaluation_time, window,
                             reeval_count, prediction, music_category,
                             calVars>>
         ELSE UNCHANGED <<predVars, chanVars, bootVars, readerVars, playerVars, orphanVars, stepVars, pipeVars, state, session_active, running, pc, baseline_data,
                          baseline_bpm, gsrVars, hrVars, sessionVars, calVars>>

\* run_calibration, lines 300-317: one iteration of the GSR baseline wait.
CalGsrWait ==
    /\ pc = "cal_gsr_wait"
    /\ IF polls < CalWaitPolls /\ ~has_baseline_data
       THEN polls' = polls + 1 /\ pc' = pc
       ELSE polls' = 0 /\ pc' = "cal_gsr_decide"
    /\ UNCHANGED <<predVars, chanVars, bootVars, readerVars, playerVars, orphanVars, stepVars, pipeVars, state, session_active, running, button_queue,
                   baseline_data, baseline_bpm, gsrVars, hrVars, sessionVars,
                   cal_branch, cal_baseline_msg, stop_enqueued_in>>

\* run_calibration, lines 319-338.
CalGsrDecide ==
    /\ pc = "cal_gsr_decide"
    /\ IF ~has_baseline_data
       THEN baseline_data' = set_default_baseline /\ cal_branch' = "default"
       ELSE baseline_data' = baseline_data /\ cal_branch' = "arduino"
    /\ pc' = "cal_hr_wait"
    /\ polls' = 0
    /\ UNCHANGED <<predVars, chanVars, bootVars, readerVars, playerVars, orphanVars, stepVars, pipeVars, state, session_active, running, button_queue,
                   baseline_bpm, gsrVars, hrVars, sessionVars,
                   cal_baseline_msg, stop_enqueued_in>>

\* HRSensor.calculate_baseline: mean BPM of the readings of the time frame
\* that have valid_bpm and finger_detected, None with fewer than 5 of them.
\* Every history entry of the model lies inside the time frame.
RECURSIVE SumBpm(_)
SumBpm(rs) == IF rs = <<>> THEN 0 ELSE Head(rs).bpm + SumBpm(Tail(rs))

hr_calculate_baseline ==
    LET valid_readings == SelectSeq(hr_readings_history,
                                    LAMBDA r : r.valid_bpm /\ r.finger_detected)
    IN IF Len(valid_readings) >= hr_min_valid
       THEN Some(SumBpm(valid_readings) \div Len(valid_readings))
       ELSE None

\* run_calibration, lines 340-362: one iteration of the HR wait loop.
CalHrWait ==
    /\ pc = "cal_hr_wait"
    /\ LET contact == /\ hr_latest_reading # None
                      /\ Val(hr_latest_reading).finger_detected
                      /\ Val(hr_latest_reading).valid_bpm
           baseline == IF contact THEN hr_calculate_baseline ELSE None
       IN IF polls < CalWaitPolls
          THEN IF baseline # None /\ Val(baseline) # 0
               THEN /\ baseline_bpm' = baseline
                    /\ polls' = 0
                    /\ pc' = "cal_hr_finish"
               ELSE /\ baseline_bpm' = baseline_bpm
                    /\ polls' = polls + 1
                    /\ pc' = pc
          ELSE /\ baseline_bpm' = baseline_bpm
               /\ polls' = 0
               /\ pc' = "cal_hr_finish"
    /\ UNCHANGED <<predVars, chanVars, bootVars, readerVars, playerVars, orphanVars, stepVars, pipeVars, state, session_active, running, button_queue,
                   baseline_data, gsrVars, hrVars, sessionVars, cal_branch,
                   cal_baseline_msg, stop_enqueued_in>>

\* run_calibration, lines 364-373: HR default, then return True.
CalHrFinish ==
    /\ pc = "cal_hr_finish"
    /\ baseline_bpm' = IF hr_has_baseline_data THEN baseline_bpm
                       ELSE Some(default_hr_baseline)
    /\ pc' = "cal_return"
    /\ UNCHANGED <<predVars, chanVars, bootVars, readerVars, playerVars, orphanVars, stepVars, pipeVars, state, session_active, running, button_queue,
                   baseline_data, gsrVars, hrVars, sessionVars, calVars>>

\* run_calibration, lines 375-383: a call inside the try block raises; the
\* handler stores the default GSR record and returns True.
CalError ==
    /\ pc \in CalTryPcs
    /\ baseline_data' = set_default_baseline
    /\ pc' = "cal_return"
    /\ polls' = 0
    /\ UNCHANGED <<predVars, chanVars, bootVars, readerVars, playerVars, orphanVars, stepVars, pipeVars, state, session_active, running, button_queue,
                   baseline_bpm, gsrVars, hrVars, sessionVars, cal_branch,
                   cal_baseline_msg, stop_enqueued_in>>

\* handle_button_events line 539 and run_therapy_session, lines 387-392.
RunTherapySession ==
    /\ pc = "cal_return"
    /\ state' = "session_active"
    /\ session_active' = TRUE
    /\ pc' = "session_loop"
    /\ CalibrationLocalsGone
    /\ UNCHANGED <<predVars, chanVars, bootVars, readerVars, playerVars, orphanVars, stepVars, pipeVars, running, button_queue, baseline_data, baseline_bpm,
                   gsrVars, hrVars, sessionVars>>

\* run_therapy_session, lines 395-406: the loop test and collect_window,
\* which hands the current baseline record to the window.  The window holds
\* n valid readings, or one invalid reading when n is 0.
CollectWindow ==
    /\ pc = "session_loop"
    /\ session_active /\ running
    /\ \E n \in WindowValidCounts :
          LET filled == [i \in 1..n |-> SensorReading(Some(50), Some(72), i)]
              empty == << SensorReading(None, None, 1) >>
          IN window' = Some(DataWindow(IF n = 0 THEN empty ELSE filled,
                                       0, n + 1, baseline_data))
    /\ pc' = "window"
    /\ UNCHANGED <<predVars, chanVars, bootVars, readerVars, playerVars, orphanVars, stepVars, pipeVars, state, session_active, running, button_queue,
                   baseline_data, baseline_bpm, gsrVars, hrVars, songs,
                   current_song, playing, play_clock, loop_ran,
                   re_evaluation_time, reeval_count, prediction,
                   music_category, calVars>>

\* run_therapy_session, lines 408-436: features, prediction, category,
\* select_song and play(); model_label is what the loaded model answers and
\* play_ok whether play() started the playback (the file may be gone).
SelectAndPlay ==
    /\ pc = "window"
    /\ \E model_label \in Labels, play_ok \in BOOLEAN :
         LET features == extract_features(Val(window))
             label == IF features = None THEN "no_stress" ELSE model_label
             category == _map_prediction_to_music(label)
         IN IF songs[category] = {}
            THEN /\ pc' = "session_loop"
                 /\ UNCHANGED <<current_song, playing, play_clock, loop_ran,
                                re_evaluation_time, reeval_count, prediction,
                                music_category>>
            ELSE /\ \E song \in songs[category] :
                        current_song' = Some(song)
                 /\ prediction' = label
                 /\ music_category' = category
                 /\ playing' = play_ok
                 /\ play_clock' = 0
                 /\ loop_ran' = FALSE
                 /\ re_evaluation_time' = None
                 /\ reeval_count' = 0
                 /\ pc' = "playback"
    /\ window' = None
    /\ UNCHANGED <<predVars, chanVars, bootVars, readerVars, playerVars, orphanVars, stepVars, pipeVars, state, session_active, running, button_queue,
                   baseline_data, baseline_bpm, gsrVars, hrVars, songs, calVars>>

\* _handle_playback_loop, lines 447-470: one iteration of the loop.
\* _perform_re_evaluation blocks for the quick sample's duration.
PlaybackLoop ==
    /\ pc = "playback"
    /\ playing /\ session_active
    /\ IF button_queue # <<>> /\ Head(button_queue) = "STOP"
       THEN /\ button_queue' = Tail(button_queue)
            /\ StopSessionEffect
            /\ PlaybackLocalsGone
       ELSE /\ button_queue' = IF button_queue # <<>> THEN Tail(button_queue)
                               ELSE button_queue
            /\ LET song_duration == Val(current_song)
                   scheduled == IF re_evaluation_time = None
                                   /\ song_duration > ReEvalLead
                                THEN Some(play_clock + (song_duration - ReEvalLead))
                                ELSE re_evaluation_time
               IN IF scheduled # None /\ play_clock >= Val(scheduled)
                  THEN /\ reeval_count' = reeval_count + 1
                       /\ play_clock' = play_clock + quick_duration
                       /\ re_evaluation_time' = None
                  ELSE /\ reeval_count' = reeval_count
                       /\ play_clock' = play_clock
                       /\ re_evaluation_time' = scheduled
            /\ loop_ran' = TRUE
            /\ UNCHANGED <<state, session_active, playing, pc, prediction,
                           music_category>>
    /\ UNCHANGED <<predVars, chanVars, bootVars, readerVars, playerVars, orphanVars, stepVars, pipeVars, running, baseline_data, baseline_bpm, gsrVars, hrVars,
                   songs, current_song, window, calVars>>

\* _handle_playback_loop, line 447: the loop test fails.
PlaybackExit ==
    /\ pc = "playback"
    /\ ~(playing /\ session_active)
    /\ pc' = "session_loop"
    /\ PlaybackLocalsGone
    /\ UNCHANGED <<predVars, chanVars, bootVars, readerVars, playerVars, orphanVars, stepVars, pipeVars, state, session_active, running, button_queue,
                   baseline_data, baseline_bpm, gsrVars, hrVars, songs,
                   current_song, playing, window, calVars>>

\* stop_session, line 523: _cleanup_session, then the return to the caller.
StopCleanup ==
    /\ pc = "stop_cleanup"
    /\ state' = "idle"
    /\ pc' = "session_loop"
    /\ stop_enqueued_in' = "none"
    /\ UNCHANGED <<predVars, chanVars, bootVars, readerVars, playerVars, orphanVars, stepVars, pipeVars, session_active, running, button_queue, baseline_data,
                   baseline_bpm, gsrVars, hrVars, sessionVars, polls,
                   cal_branch, cal_baseline_msg>>

\* run_therapy_session with a _cleanup_session that does not assign Idle
\* (line 528 left out): control is back in main_loop in SessionActive.
SessionExit_NoCleanup ==
    /\ pc = "session_loop"
    /\ ~(session_active /\ running)
    /\ state' = "session_active"
    /\ pc' = "main"
    /\ stop_enqueued_in' = "none"
    /\ UNCHANGED <<predVars, chanVars, bootVars, readerVars, playerVars, orphanVars, stepVars, pipeVars, session_active, running, button_queue, baseline_data,
                   baseline_bpm, gsrVars, hrVars, sessionVars, polls,
                   cal_branch, cal_baseline_msg>>

\* run_therapy_session, lines 395 and 440-441: the loop test fails, the
\* finally clause runs _cleanup_session and control is back in main_loop.
SessionExit ==
    /\ pc = "session_loop"
    /\ ~(session_active /\ running)
    /\ state' = "idle"
    /\ pc' = "main"
    /\ stop_enqueued_in' = "none"
    /\ UNCHANGED <<predVars, chanVars, bootVars, readerVars, playerVars, orphanVars, stepVars, pipeVars, session_active, running, button_queue, baseline_data,
                   baseline_bpm, gsrVars, hrVars, sessionVars, polls,
                   cal_branch, cal_baseline_msg>>

\* ------------------------------------------------------- playback thread
\* Ten seconds pass while the item plays; the playback loop, which runs
\* every 0.1 s, has run at least once since the last step.
ClockTick ==
    /\ pc = "playback"
    /\ playing
    /\ loop_ran
    /\ play_clock < Val(current_song)
    /\ play_clock' = play_clock + quick_duration
    /\ loop_ran' = FALSE
    /\ UNCHANGED <<predVars, chanVars, bootVars, readerVars, playerVars, orphanVars, stepVars, pipeVars, state, session_active, running, button_queue, pc,
                   baseline_data, baseline_bpm, gsrVars, hrVars, songs,
                   current_song, playing, re_evaluation_time, window,
                   reeval_count, prediction,
                   music_category, calVars>>

\* _simulate_playback, lines 297-303: the item's duration has elapsed.
PlaybackFinished ==
    /\ playing
    /\ play_clock >= Val(current_song)
    /\ playing' = FALSE
    /\ UNCHANGED <<predVars, chanVars, bootVars, readerVars, playerVars, orphanVars, stepVars, pipeVars, state, session_active, running, button_queue, pc,
                   baseline_data, baseline_bpm, gsrVars, hrVars, songs,
                   current_song, play_clock, loop_ran, re_evaluation_time,
                   window, reeval_count, prediction,
                   music_category, calVars>>

\* ------------------------------------------- music player, by statement
\* What the statements of play() and of its thread leave alone.
besidePlayer ==
    <<predVars, chanVars, bootVars, readerVars, orphanVars, stepVars, pipeVars, state, session_active,
      running, button_queue, pc, baseline_data, baseline_bpm, gsrVars, hrVars,
      calVars, songs, loop_ran, re_evaluation_time, window, reeval_count,
      prediction, music_category, pygame_available>>

\* The track of the current item is still sounding: pygame's get_busy(),
\* respectively the simulated duration has not elapsed.
TrackPlaying == play_clock < Val(current_song)

\* select_song (lines 190-191) and play() up to the first two statements of
\* the stop() it calls (lines 217, 308-309).
PlayEnter ==
    /\ play_pc \in {"idle", "returned"}
    /\ \E c \in Categories : \E song \in songs[c] : current_song' = Some(song)
    /\ playing' = FALSE
    /\ player_stop_event' = TRUE
    /\ play_pc' = "join"
    /\ UNCHANGED <<besidePlayer, playback_thread, play_clock>>

\* stop(), lines 319-320: the join returns when the previous thread has
\* ended, which it does within the timeout once the event is set.
PlayJoin ==
    /\ play_pc = "join"
    /\ playback_thread \in {"none", "exited"}
    /\ play_pc' = "start"
    /\ UNCHANGED <<besidePlayer, playback_thread, play_clock, current_song,
                   playing, player_stop_event>>

\* play(), lines 225-228: _play_hardware (247-254) or _play_simulation
\* (263-268) starts the track and the thread.
PlayStartThread ==
    /\ play_pc = "start"
    /\ playback_thread' = "test"
    /\ play_clock' = 0
    /\ play_pc' = "set_playing"
    /\ UNCHANGED <<besidePlayer, current_song, playing, player_stop_event>>

\* play(), line 230.
PlaySetPlaying ==
    /\ play_pc = "set_playing"
    /\ playing' = TRUE
    /\ play_pc' = "clear"
    /\ UNCHANGED <<besidePlayer, playback_thread, play_clock, current_song,
                   player_stop_event>>

\* play(), lines 231-238: the event is cleared and play() returns True.
PlayClearAndReturn ==
    /\ play_pc = "clear"
    /\ player_stop_event' = FALSE
    /\ play_pc' = "returned"
    /\ UNCHANGED <<besidePlayer, playback_thread, play_clock, current_song,
                   playing>>

\* The condition of the thread's loop and one pass of its body:
\* _monitor_playback, lines 275-280, when pygame is available, otherwise
\* _simulate_playback, lines 297-298.
PlaybackThreadLoop ==
    /\ playback_thread = "test"
    /\ IF pygame_available
       THEN IF ~player_stop_event /\ playing
            THEN IF ~TrackPlaying
                 THEN playing' = FALSE /\ playback_thread' = "finally"
                 ELSE UNCHANGED <<playing, playback_thread>>
            ELSE playback_thread' = "finally" /\ UNCHANGED playing
       ELSE IF ~player_stop_event /\ TrackPlaying
            THEN UNCHANGED <<playing, playback_thread>>
            ELSE playback_thread' = "finally" /\ UNCHANGED playing
    /\ UNCHANGED <<besidePlayer, play_clock, current_song, player_stop_event,
                   play_pc>>

\* The finally clause of the thread, line 285 respectively 303.
PlaybackThreadFinally ==
    /\ playback_thread = "finally"
    /\ playing' = FALSE
    /\ playback_thread' = "exited"
    /\ UNCHANGED <<besidePlayer, play_clock, current_song, player_stop_event,
                   play_pc>>

\* Ten seconds of the track pass.
TrackTick ==
    /\ playback_thread # "none"
    /\ play_pc # "join" /\ play_pc # "start"
    /\ TrackPlaying
    /\ play_clock' = play_clock + quick_duration
    /\ UNCHANGED <<besidePlayer, playback_thread, current_song, playing,
                   player_stop_event, play_pc>>

\* main(), lines 588-594 and 606-609, with initialize_hardware (84-143):
\* the modules are constructed, the sensors started and, after five
\* seconds, every module is asked whether it is ready.  port_opens,
\* sensor_ok, exists and load_ok are the outcomes of opening the serial
\* port, of MAX30102(), of os.path.exists and of joblib.load; lcd_ready and
\* music_ready are what the display and the player answer.  When a module
\* is not ready initialize_hardware returns False and main() returns 1
\* after shutdown(); otherwise main_loop is entered.
InitializeHardware ==
    /\ pc = "boot"
    /\ \E port_opens \in BOOLEAN, sensor_ok \in BOOLEAN, lcd_ready \in BOOLEAN,
          music_ready \in BOOLEAN, exists \in BOOLEAN, load_ok \in BOOLEAN :
         LET predictor == _load_model(exists, load_ok)
             gsr_ready == port_opens
             hr_ready == sensor_ok
             model_ready == is_loaded(predictor)
         IN /\ GSRStarted(port_opens)
            /\ HRStarted(sensor_ok)
            /\ stress_predictor' = Some(predictor)
            /\ IF gsr_ready /\ hr_ready /\ lcd_ready /\ music_ready /\ model_ready
               THEN /\ pc' = "main"
                    /\ UNCHANGED <<running, exit_code>>
               ELSE /\ pc' = "halted"
                    /\ running' = FALSE
                    /\ exit_code' = Some(1)
    /\ UNCHANGED <<rb_predictor, read_failures, playerVars, readerVars, stepVars, pipeVars, state,
                   session_active, button_queue, baseline_data, baseline_bpm,
                   gsrVars, hrVars, sessionVars, calVars>>

\* ------------------------------------------------------------------ user
\* KeyboardInterrupt on the control thread: inside run_therapy_session the
\* finally clause runs _cleanup_session; main_loop breaks (line 560) and
\* main() runs shutdown() (lines 608-609).
KeyboardInterrupt ==
    /\ pc # "halted"
    /\ state' = IF pc \in SessionPcs THEN "idle" ELSE state
    /\ running' = FALSE
    /\ session_active' = FALSE
    /\ playing' = FALSE
    /\ pc' = "halted"
    /\ PlaybackLocalsGone
    /\ CalibrationLocalsGone
    /\ window' = None
    /\ UNCHANGED <<predVars, chanVars, bootVars, readerVars, playerVars, orphanVars, stepVars, pipeVars, button_queue, baseline_data, baseline_bpm, gsrVars,
                   hrVars, songs, current_song>>

ControlThread ==
    \/ HandleButtonEvents
    \/ CalGsrWait
    \/ CalGsrDecide
    \/ CalHrWait
    \/ CalHrFinish
    \/ RunTherapySession
    \/ CollectWindow
    \/ SelectAndPlay
    \/ PlaybackLoop
    \/ PlaybackExit
    \/ StopCleanup
    \/ SessionExit

Next ==
    \/ ButtonFrame
    \/ BaselineFrame
    \/ HandleButtonEvents
    \/ CalGsrWait
    \/ CalGsrDecide
    \/ CalHrWait
    \/ CalHrFinish
    \/ RunTherapySession
    \/ CollectWindow
    \/ SelectAndPlay
    \/ PlaybackLoop
    \/ PlaybackExit
    \/ StopCleanup
    \/ SessionExit
    \/ ClockTick
    \/ PlaybackFinished
    \/ KeyboardInterrupt

Spec == Init /\ [][Next]_vars

\* The control loop, the clock and the playback thread keep running.
FairSpec ==
    /\ Spec
    /\ WF_vars(ControlThread)
    /\ WF_vars(ClockTick)
    /\ WF_vars(PlaybackFinished)

\* Only the control thread is scheduled: nothing is assumed about what the
\* sensors, the player and the user do.
FairControlSpec ==
    /\ Spec
    /\ WF_vars(ControlThread)

\* One calibration with telemetry arriving on the serial line.
NextCal ==
    \/ ButtonFrame
    \/ BaselineFrame
    \/ GSRFrame
    \/ HandleButtonEvents
    \/ CalGsrWait
    \/ CalGsrDecide
    \/ CalHrWait
    \/ CalHrFinish
    \/ RunTherapySession

\* The library plays no part in calibration.
InitCal == Init /\ songs = [c \in Categories |-> {180}]

SpecCal == InitCal /\ [][NextCal]_vars

\* One calibration with readings published by the HR worker, in which a
\* call made inside run_calibration's try block may raise.
NextHRCal ==
    \/ ButtonFrame
    \/ BaselineFrame
    \/ HRVitals
    \/ HandleButtonEvents
    \/ CalGsrWait
    \/ CalGsrDecide
    \/ CalHrWait
    \/ CalHrFinish
    \/ CalError
    \/ RunTherapySession

SpecHRCal == InitCal /\ [][NextHRCal]_vars

\* The music player alone: calls of play(), the thread each call starts and
\* the track, with pygame and without it.
InitPlayer ==
    /\ Constructed
    /\ MainLoopEntered
    /\ pygame_available \in BOOLEAN
    /\ songs["calming"] = {60}

NextPlayer ==
    \/ PlayEnter
    \/ PlayJoin
    \/ PlayStartThread
    \/ PlaySetPlaying
    \/ PlayClearAndReturn
    \/ PlaybackThreadLoop
    \/ PlaybackThreadFinally
    \/ TrackTick

SpecPlayer == InitPlayer /\ [][NextPlayer]_vars

\* The caller, the thread and the track all make progress.
FairSpecPlayer ==
    /\ SpecPlayer
    /\ WF_vars(PlayJoin)
    /\ WF_vars(PlayStartThread)
    /\ WF_vars(PlaySetPlaying)
    /\ WF_vars(PlayClearAndReturn)
    /\ WF_vars(PlaybackThreadLoop)
    /\ WF_vars(PlaybackThreadFinally)
    /\ WF_vars(TrackTick)

\* The session machine with the serial worker fed line by line: every kind
\* of message arrives in every state of the session.
NextMessages ==
    \/ \E l \in MessageLines :
          /\ SerialPass(l)
          /\ Len(readings_history') <= MaxSerialFrames
          /\ Len(button_queue') <= MaxPending
    \/ ControlThread
    \/ ClockTick
    \/ PlaybackFinished
    \/ KeyboardInterrupt

SpecMessages == InitCal /\ [][NextMessages]_vars

\* The serial worker fed line by line, with nothing else running.
NextSerial ==
    \/ ReadLine
    \/ ProcessLine
    \/ TimePasses

SpecSerial == InitCal /\ [][NextSerial]_vars

\* The HR worker, statement by statement, as a reader on another thread can
\* observe it.
NextHistory ==
    \/ HRStoreLatest
    \/ HRAppendHistory
    \/ HRTrimHistory

SpecHistory == InitCal /\ [][NextHistory]_vars

\* The HR worker, statement by statement, and one call of
\* get_readings_in_timeframe made once the history is full.
NextReader ==
    \/ HRStoreLatest
    \/ HRAppendHistory
    \/ HRTrimHistory
    \/ (GetReadingsCall /\ Len(hr_readings_history) >= max_history)
    \/ GetReadingsNext

SpecReader == InitCal /\ [][NextReader]_vars

\* One collection, followed by the extractor and the predictor.  The device
\* sends its baseline before the collection starts; the two sensor workers
\* publish readings before and during the collection.
PipelineFrames == Len(readings_history) + Len(hr_readings_history)

NextPipeline ==
    \/ CollectStart
    \/ CollectIterate
    \/ CollectReturn
    \/ PredictWindow
    \/ ReEvaluate
    \/ (GSRFrame /\ PipelineFrames < MaxPipelineFrames
                 /\ collector.pc \in {"idle", "loop"})
    \/ (HRVitals /\ PipelineFrames < MaxPipelineFrames
                 /\ collector.pc \in {"idle", "loop"})
    \/ (BaselineFrame /\ collector.pc = "idle")

SpecPipeline == InitCal /\ [][NextPipeline]_vars

\* The classifier of src/model alone: construction and calls of predict.
PredictionsMade == Len(Val(stress_predictor).prediction_history)

NextClassifier ==
    \/ LoadModel
    \/ (Predict /\ PredictionsMade < MaxPredictions)

SpecClassifier == InitBoot /\ [][NextClassifier]_vars

\* The classifier of src/ml alone: construction, set_baseline and calls of
\* predict.
RBPredictionsMade == Len(Val(rb_predictor).prediction_history)

NextRuleBased ==
    \/ RBInitialize
    \/ RBSetBaseline
    \/ (RBPredict /\ RBPredictionsMade < MaxRBPredictions)

SpecRuleBased == InitBoot /\ [][NextRuleBased]_vars

\* The lengths of the two prediction histories under a long run of calls
\* with the same features and the same answer: first the classifier of
\* src/ml until its history is full and has dropped an entry, then the
\* classifier of src/model.
SameFeatures == Some([gsr_conductance |-> 150, heart_rate |-> 70])
SameOutput ==
    [raises |-> FALSE, prediction |-> 1,
     probabilities |-> << Q(0, 1), Q(1, 1) >>]

NextPredictionHistory ==
    \/ (RBInitialize /\ stress_predictor = None)
    \/ (RBPredictWith(SameFeatures) /\ stress_predictor = None)
    \/ (LoadModel /\ rb_predictor # None
           /\ RBPredictionsMade = prediction_max_history)
    \/ (PredictWith(SameFeatures, SameOutput)
           /\ PredictionsMade < MaxPredictionHistory)

SpecPredictionHistory == InitBoot /\ [][NextPredictionHistory]_vars

\* The process from the call of initialize_hardware on.
NextBoot ==
    \/ InitializeHardware
    \/ (pc # "boot" /\ Next)

SpecBoot == InitBoot /\ [][NextBoot]_vars

\* The two sensor channels alone: start_sensor, stop_sensor, the two worker
\* loops and one silence.  The channels are started, and started again,
\* before the silence, and a worker is started only when the previous one
\* has left its loop.
ChannelFrames == Len(readings_history) + Len(hr_readings_history)

GSRLoopBodyBounded == GSRLoopBody /\ ChannelFrames' <= MaxChannelFrames

HRLoopBodyBounded == HRLoopBody /\ ChannelFrames' <= MaxChannelFrames

NextChannel ==
    \/ (GSRStartSensor /\ now = 0 /\ gsr_thread \in {"none", "exited"})
    \/ (HRStartSensor /\ now = 0 /\ hr_thread \in {"none", "exited"})
    \/ GSRStopSensor
    \/ HRStopSensor
    \/ GSRLoopTest
    \/ HRLoopTest
    \/ GSRLoopBodyBounded
    \/ HRLoopBodyBounded
    \/ (TimePasses /\ gsr_thread # "none" /\ hr_thread # "none")

SpecChannel == InitBoot /\ [][NextChannel]_vars

\* The scheduler runs a worker thread that can take a step.
FairSpecChannel ==
    /\ SpecChannel
    /\ WF_vars(GSRLoopTest)
    /\ WF_vars(HRLoopTest)
    /\ WF_vars(GSRLoopBodyBounded)
    /\ WF_vars(HRLoopBodyBounded)

\* The channels stopped and started again without waiting for the worker:
\* the join of stop_sensor may time out.  A channel is started again while
\* at most one earlier worker is left.
NextRestart ==
    \/ GSRStopSensor
    \/ HRStopSensor
    \/ (GSRStartSensor /\ gsr_orphan = "none")
    \/ (HRStartSensor /\ hr_orphan = "none")
    \/ GSRLoopTest
    \/ HRLoopTest
    \/ GSRLoopBodyBounded
    \/ HRLoopBodyBounded
    \/ (GSROrphanLoop /\ ChannelFrames' <= MaxChannelFrames)
    \/ (HROrphanLoop /\ ChannelFrames' <= MaxChannelFrames)

SpecRestart == InitCal /\ [][NextRestart]_vars

\* ================================================================ claims
StartDequeued ==
    /\ button_queue # <<>>
    /\ Head(button_queue) = "START"
    /\ button_queue' = Tail(button_queue)

\* C1: a Stop enqueued while the state is SessionActive leads to Stopping and
\* then to Idle with playback stopped, for every library and every playback
\* outcome (the process being shut down is the only excuse).
C1_StopReachesIdle ==
    /\ (state = "session_active" /\ stop_enqueued_in = "session_active")
          ~> (state = "stopping" \/ ~running)
    /\ (state = "session_active" /\ stop_enqueued_in = "session_active")
          ~> ((state = "idle" /\ ~playing) \/ ~running)

\* C2: a Start dequeued in Idle makes the state Calibrating, calibration
\* runs to its return and only then the state becomes SessionActive; a Start
\* dequeued in another state changes nothing; Calibrating is entered in no
\* other way.
C2_StartCalibratesThenSession ==
    /\ [][(StartDequeued /\ state = "idle") => state' = "calibrating"]_vars
    /\ [][(StartDequeued /\ state # "idle") => (state' = state /\ pc' = pc)]_vars
    /\ [][(state' = "calibrating" /\ state # "calibrating")
             => (StartDequeued /\ state = "idle")]_vars
    /\ [][(state' = "session_active" /\ state # "session_active")
             => (state = "calibrating" /\ pc = "cal_return")]_vars
    /\ (state = "calibrating") ~> (state = "session_active" \/ ~running)

\* A session entered after a calibration that has stored both baselines.
C2_Witness ==
    /\ state = "session_active"
    /\ pc = "session_loop"
    /\ has_baseline_data
    /\ hr_has_baseline_data

\* C3: once a Stop was enqueued in Calibrating, the state leaves Calibrating
\* only for Stopping, and SessionActive is not entered.
C3_StopHonoredInCalibration ==
    [][(state = "calibrating" /\ stop_enqueued_in = "calibrating"
          /\ state' # state) => state' = "stopping"]_vars

\* C4: the session state changes only along Idle -> Calibrating ->
\* SessionActive -> Stopping -> Idle, or Calibrating -> Stopping.
AllowedTransitions ==
    { <<"idle", "calibrating">>, <<"calibrating", "session_active">>,
      <<"session_active", "stopping">>, <<"stopping", "idle">>,
      <<"calibrating", "stopping">> }

C4_StateCycle ==
    [][state' # state => <<state, state'>> \in AllowedTransitions]_vars

\* C5: when an item has played to its end, one re-evaluation was made if its
\* duration exceeds 60 s and none otherwise; the first one is scheduled
\* duration - 60 s after the playback loop started.
C5_OneReEvaluation ==
    /\ (pc = "playback" /\ session_active /\ ~playing
           /\ play_clock >= Val(current_song))
          => reeval_count = IF Val(current_song) > ReEvalLead THEN 1 ELSE 0
    /\ (pc = "playback" /\ reeval_count = 0 /\ re_evaluation_time # None)
          => Val(re_evaluation_time) = Val(current_song) - ReEvalLead

\* C6: the button queue never holds more events than its bound.  The code
\* gives the queue no capacity, so the bound is taken as any number below the
\* number of events the serial worker sends while the control thread does
\* not poll.
QueueBound == MaxPending - 1

C6_QueueBounded == Len(button_queue) <= QueueBound

\* C7: when run_calibration has returned, the GSR baseline record and the
\* HR baseline are both set.
C7_CalibrationSetsBothBaselines ==
    pc = "cal_return" => (has_baseline_data /\ hr_has_baseline_data)

\* C8: when calibration decides without a baseline from the device, it
\* stores the mean of the valid readings with source Computed if there are
\* at least 10 of them, and the defaults with source Default otherwise.
C8_ComputedOrDefault ==
    [][(pc = "cal_gsr_decide" /\ pc' = "cal_hr_wait" /\ ~has_baseline_data)
         => /\ baseline_data' # None
            /\ IF calculate_baseline # None
               THEN /\ Val(baseline_data').source = "computed"
                    /\ Val(baseline_data').gsr_baseline = Val(calculate_baseline)
               ELSE baseline_data' = set_default_baseline]_vars

\* C9: calibration takes the device-reported branch only if a BASELINE:
\* message was stored during this calibration phase.
C9_DeviceBaselineIsFresh == cal_branch = "arduino" => cal_baseline_msg

\* C10: the baseline record does not change while the state is SessionActive.
C10_BaselineFrozenInSession ==
    [][(state = "session_active" /\ state' = "session_active")
         => baseline_data' = baseline_data]_vars

\* The line the worker has just finished processing.
Processed(l) == line = Some(l) /\ line' = None

\* The conductance written in a telemetry line, in tenths of a microsiemens.
Written(l) ==
    CASE l = << "GSR_CONDUCTANCE", ":", "7", ".", "3" >> -> 73
      [] l = << "GSR_CONDUCTANCE", ":", "1", "0", "0" >> -> 1000
      [] l = << "GSR_CONDUCTANCE", ":", "0", ".", "1" >> -> 1
      [] l = << "GSR_CONDUCTANCE", ":", "0" >> -> 0

\* C11: after the worker has processed a telemetry frame whose value x lies
\* in [0.1, 100], read_gsr returns x, whatever was processed before.
C11_LatestIsFrameValue ==
    [][\A l \in TelemetryLines :
          (Processed(l) /\ min_conductance <= Written(l)
                        /\ Written(l) <= max_conductance)
             => read_gsr' = Some(Written(l))]_vars

\* The upper end of the range read back after an earlier reading.
C11_Witness ==
    /\ read_gsr = Some(max_conductance)
    /\ Len(readings_history) = 2
    /\ line = None

\* C12: the latest-reading accessors return nothing while no reading has
\* been received, and never return a value whose reading is older than the
\* liveness threshold.
C12_NoStaleValue ==
    /\ latest_reading = None => read_gsr = None
    /\ hr_latest_reading = None => read_max30106_HR = None
    /\ read_gsr # None
          => now - Val(latest_reading).timestamp <= liveness_threshold
    /\ read_max30106_HR # None
          => now - Val(hr_latest_reading).timestamp <= liveness_threshold

\* The HR worker is between two readings.
HRWorkerBetweenReadings == hr_worker_at = "latest"

\* C13: a history never holds more than 1000 entries in a state a reader can
\* observe; once a reading has been processed the history holds the most
\* recent min(n, 1000) readings in arrival order, and the latest reading is
\* its newest entry.
C13_HistoryWindow ==
    /\ Len(readings_history) <= history_maxlen
    /\ Len(hr_readings_history) <= max_history
    /\ latest_reading # None =>
          Val(latest_reading) = readings_history[Len(readings_history)]
    /\ HRWorkerBetweenReadings =>
          /\ hr_readings_history = LastN(hr_arrived, max_history)
          /\ hr_latest_reading # None =>
                Val(hr_latest_reading) =
                   hr_readings_history[Len(hr_readings_history)]

\* The frames written one after another in a line of ConcatenatedLines.
Frames(l) ==
    CASE l = << "GSR_CONDUCTANCE", ":", "7", ".", "3",
                "GSR_CONDUCTANCE", ":", "8", ".", "1" >>
           -> << << "GSR_CONDUCTANCE", ":", "7", ".", "3" >>,
                 << "GSR_CONDUCTANCE", ":", "8", ".", "1" >> >>
      [] l = << "GSR_CONDUCTANCE", ":", "7", ".", "3", "BUTTON", ":", "START" >>
           -> << << "GSR_CONDUCTANCE", ":", "7", ".", "3" >>,
                 << "BUTTON", ":", "START" >> >>
      [] l = << "BUTTON", ":", "STOP", "GSR_CONDUCTANCE", ":", "7", ".", "3" >>
           -> << << "BUTTON", ":", "STOP" >>,
                 << "GSR_CONDUCTANCE", ":", "7", ".", "3" >> >>
      [] l = << "BUTTON", ":", "START", "BUTTON", ":", "STOP" >>
           -> << << "BUTTON", ":", "START" >>, << "BUTTON", ":", "STOP" >> >>

\* The worker's data after the frames of a line have been processed one by
\* one, each as a message of its own.
FrameByFrame(l) == ProcessMessages(WorkerState, Frames(l), now)

\* C14: a line of two frames written without a delimiter, of the same or of
\* different prefixes, is processed as its two frames, in order, none lost.
C14_ConcatenatedFramesAllProcessed ==
    [][\A l \in ConcatenatedLines :
          Processed(l) =>
             /\ latest_reading' = FrameByFrame(l).latest
             /\ readings_history' = FrameByFrame(l).history
             /\ baseline_data' = FrameByFrame(l).baseline
             /\ button_queue' = FrameByFrame(l).queue]_vars

\* The part of C14 about two frames of the same prefix.
SamePrefixFramesAllProcessed ==
    [][\A l \in ConcatenatedLines :
          (Processed(l) /\ Len(SplitMessages(l)) > 1) =>
             /\ latest_reading' = FrameByFrame(l).latest
             /\ readings_history' = FrameByFrame(l).history
             /\ baseline_data' = FrameByFrame(l).baseline
             /\ button_queue' = FrameByFrame(l).queue]_vars

\* The lines that are one BASELINE: message.
BaselineMessages == { l \in Lines : startswith(l, "BASELINE") }

\* The two values written in a BASELINE: message, in tenths; None when the
\* message does not carry both.
WrittenBaseline(l) ==
    CASE l = << "BASELINE", ":", "GSR", ":", "3", ",", "HR", ":", "7", "5" >>
           -> Some(BaselineData(30, 750, "arduino"))
      [] l = << "BASELINE", ":", "GSR", ":", "4", ".", "5", ",",
                "HR", ":", "8", "0" >>
           -> Some(BaselineData(45, 800, "arduino"))
      [] l = << "BASELINE", ":", "GSR", ":", "nan", ",", "HR", ":", "7", "5" >>
           -> Some(BaselineData(NaN, 750, "arduino"))
      [] OTHER -> None

\* C15: a BASELINE: message either replaces the stored baseline by a record
\* whose two values are the two values of the message, or leaves it as it
\* was.
C15_BaselineWholeOrUntouched ==
    [][\A l \in BaselineMessages :
          Processed(l) =>
             \/ baseline_data' = baseline_data
             \/ /\ WrittenBaseline(l) # None
                /\ baseline_data' = WrittenBaseline(l)]_vars

\* A second complete message has replaced the record of the first.
C15_Witness ==
    /\ baseline_data = Some(BaselineData(45, 800, "arduino"))
    /\ line = None

\* C16: processing a malformed frame (telemetry without a number, an
\* unknown button, a BASELINE: message with a missing or non-numeric field, a
\* BASELINE_PROGRESS: message that is not n/m, an unknown prefix) changes
\* neither the latest reading nor the history, the baseline or the button
\* queue, and leaves the worker running and ready to read the next line.
C16_MalformedFrameDropped ==
    [][\A l \in MalformedLines :
          Processed(l) =>
             /\ latest_reading' = latest_reading
             /\ readings_history' = readings_history
             /\ baseline_data' = baseline_data
             /\ button_queue' = button_queue
             /\ running' /\ line' = None]_vars

\* A malformed line is about to be processed by a worker that holds a
\* reading, a baseline and a pending button event.
C16_Witness ==
    /\ line # None /\ Val(line) \in MalformedLines
    /\ latest_reading # None
    /\ baseline_data # None
    /\ button_queue # << >>

\* The names the classifier reads.
ClassifierNames == { feature_names[i] : i \in 1..Len(feature_names) }

\* A window in which every reading carries both channels.
BothChannelsWindow ==
    DataWindow([i \in 1..min_samples |->
                   SensorReading(Some(50), Some(72), i)],
               0, min_samples + 1, None)

\* C17: every feature map extract_features returns has one and the same key
\* set, that of a window with both channels, and this set contains the 15
\* names the classifier reads, also when a channel has no value in the
\* window.
C17_FixedCompleteKeySet ==
    (collector.pc = "predicted" /\ last_features # None) =>
       /\ DOMAIN Val(last_features)
             = DOMAIN Val(extract_features(BothChannelsWindow))
       /\ ClassifierNames \subseteq DOMAIN Val(last_features)

\* The two parts of C17, separately.
C17_SameKeySet ==
    (collector.pc = "predicted" /\ last_features # None) =>
       DOMAIN Val(last_features)
          = DOMAIN Val(extract_features(BothChannelsWindow))
C17_ClassifierNamesPresent ==
    (collector.pc = "predicted" /\ last_features # None) =>
       ClassifierNames \subseteq DOMAIN Val(last_features)

\* C18: for a window in which no reading is valid, extract_features returns
\* the map that gives 0.0 to each of the 15 names: not None, not a part of
\* the map.
C18_AllInvalidGivesZeros ==
    (/\ collector.pc = "predicted"
     /\ Val(collected).type = "DataWindow"
     /\ Val(collected).readings # << >>
     /\ \A i \in 1..Len(Val(collected).readings) :
           ~Val(collected).readings[i].valid)
       => last_features = Some([k \in ClassifierNames |-> Zero])

\* The window collect_window seals from the readings the collector holds.
WindowOfReadings ==
    DataWindow(collector.readings, collector.start_time,
               collector.start_time + collector.window_size,
               collector.baseline)

\* A quick sample has been returned.
QuickSampleReturned ==
    collector.pc \in {"returned", "predicted"} /\ collector.mode = "quick"

\* C19: collect_quick_sample returns a sealed DataWindow as collect_window
\* does, and the extractor gives for it what it gives for the window of the
\* same readings.
C19_QuickSampleIsWindow ==
    QuickSampleReturned =>
       /\ Val(collected).type = "DataWindow"
       /\ extract_features(Val(collected))
             = extract_features(WindowOfReadings)

\* The second part of C19 alone.
C19_SameFeatures ==
    QuickSampleReturned =>
       extract_features(Val(collected)) = extract_features(WindowOfReadings)

\* What the code does instead: a re-evaluation never has features and its
\* label is never "stress".
ReEvaluationIsBlind ==
    (collector.pc = "predicted" /\ collector.mode = "quick") =>
       /\ last_features = None
       /\ last_prediction # "stress"

\* The readings of the collection in progress or of the last one.
Collected == collector.readings

\* C20: a collection holds one reading for each sampling tick; a reading is
\* valid exactly when one of the two channels had a value at its tick, so a
\* tick without any value adds an invalid reading; timestamps do not
\* decrease; and the sealed window holds these readings.
C20_OneReadingPerTick ==
    /\ Len(Collected) = collector.ticks
    /\ \A i \in 1..Len(Collected) :
          Collected[i].valid <=> (Collected[i].gsr_conductance # None
                                  \/ Collected[i].heart_rate # None)
    /\ \A i \in 1..Len(Collected) - 1 :
          Collected[i].timestamp <= Collected[i + 1].timestamp
    /\ (collector.pc = "returned" /\ collector.mode = "window") =>
          Val(collected).readings = Collected

\* A sealed window of five ticks: the first without a value in either
\* channel, the last with one.
C20_Witness ==
    /\ collector.pc = "returned"
    /\ collector.mode = "window"
    /\ collector.ticks = 5
    /\ ~Val(collected).readings[1].valid
    /\ Val(collected).readings[5].valid

\* The label the rule-based scoring of src/ml gives to a feature dictionary,
\* with the thresholds of the fallback model and no baseline.
RuleBasedLabel(features) ==
    rb_predict(_initialize_predictor(FALSE, FALSE, _create_fallback_model),
               features).value

\* The model of the classifier in use could not be loaded.
LoadFailed == stress_predictor # None /\ ~Val(stress_predictor).loaded

\* C21: a classifier whose trained model could not be loaded answers a call
\* of predict with the label of the rule-based scoring of the features:
\* stress when the rule-based score lies in one of the two stress bands, and
\* no_stress otherwise.
C21_LoadFailureFallsBackToRules ==
    (LoadFailed /\ last_features # None)
        => (last_prediction = "stress"
               <=> RuleBasedLabel(last_features) \in {"stress", "high_stress"})

\* initialize_hardware has run and found a sensor channel disconnected or
\* the classifier without a model.
DegradedStart ==
    /\ stress_predictor # None
    /\ \/ ~gsr_connected
       \/ ~hr_connected
       \/ ~is_loaded(Val(stress_predictor))

\* C22: with a sensor channel disconnected or the classifier model
\* unavailable at start-up the process does not exit: main() does not return
\* the failure code.
C22_DegradedStartKeepsRunning == DegradedStart => exit_code = None

\* The results in the history of the rule-based classifier that carry the
\* scores of the rule-based scoring.
Scored ==
    IF rb_predictor = None THEN {}
    ELSE { i \in 1..Len(Val(rb_predictor).prediction_history) :
             "combined_score"
                \in DOMAIN Val(rb_predictor).prediction_history[i].features }

ScoredFeatures(i) == Val(rb_predictor).prediction_history[i].features

\* score is 0 at or below low, 1 at or above high and linear in between.
PiecewiseLinear(x, low, high, score) ==
    /\ QLeq(x, low) => score = Q(0, 1)
    /\ QLeq(high, x) => score = Q(1, 1)
    /\ (QLt(low, x) /\ QLt(x, high))
          => QMul(score, QSub(high, low)) = QSub(x, low)

\* C23: in the rule-based classifier each channel score is 0 at or below the
\* low threshold, 1 at or above the high threshold and linear in between
\* (in the input as the scoring receives it, normalised when a baseline is
\* set); the combined score is 0.6 times the GSR score plus 0.4 times the HR
\* score, lies in [0, 1] and does not decrease when one of the two inputs
\* grows and the other stays.
C23_ScoresPiecewiseLinearAndMonotone ==
    /\ \A i \in Scored :
          LET self == Val(rb_predictor)
              f == ScoredFeatures(i)
              thresholds == _create_fallback_model.parameters
          IN /\ PiecewiseLinear(
                    _normalize_feature(self, f.gsr_conductance, "gsr_conductance"),
                    thresholds.gsr_thresholds.low,
                    thresholds.gsr_thresholds.high, f.gsr_score)
             /\ PiecewiseLinear(
                    _normalize_feature(self, f.heart_rate, "heart_rate"),
                    thresholds.hr_thresholds.low,
                    thresholds.hr_thresholds.high, f.hr_score)
             /\ QMul(f.combined_score, Q(10, 1))
                   = QAdd(QMul(f.gsr_score, Q(6, 1)), QMul(f.hr_score, Q(4, 1)))
             /\ QLeq(Q(0, 1), f.combined_score)
             /\ QLeq(f.combined_score, Q(1, 1))
    /\ \A i, j \in Scored :
          LET f == ScoredFeatures(i)
              g == ScoredFeatures(j)
          IN /\ (QLeq(f.gsr_conductance, g.gsr_conductance)
                   /\ f.heart_rate = g.heart_rate)
                   => QLeq(f.combined_score, g.combined_score)
             /\ (QLeq(f.heart_rate, g.heart_rate)
                   /\ f.gsr_conductance = g.gsr_conductance)
                   => QLeq(f.combined_score, g.combined_score)

\* Two results whose GSR input lies strictly between the thresholds, the
\* second with the larger input and the larger combined score.
C23_Witness ==
    \E i, j \in Scored :
        LET f == ScoredFeatures(i)
            g == ScoredFeatures(j)
        IN /\ QLt(Q(0, 1), f.gsr_score)
           /\ QLt(g.gsr_score, Q(1, 1))
           /\ QLt(f.gsr_conductance, g.gsr_conductance)
           /\ f.heart_rate = g.heart_rate
           /\ QLt(f.combined_score, g.combined_score)

ScoredResult(i) == Val(rb_predictor).prediction_history[i]

\* Both inputs at or above their high thresholds, no baseline set.
BothHigh(i) ==
    /\ Val(rb_predictor).baseline_data = None
    /\ QLeq(Q(25, 1), ScoredFeatures(i).gsr_conductance)
    /\ QLeq(Q(100, 1), ScoredFeatures(i).heart_rate)

\* GSR at its low threshold and HR 70, no baseline set.
LowAndSeventy(i) ==
    /\ Val(rb_predictor).baseline_data = None
    /\ ScoredFeatures(i).gsr_conductance = Q(5, 1)
    /\ ScoredFeatures(i).heart_rate = Q(70, 1)

\* C24: the label of every rule-based prediction is one of the two values
\* stress and no_stress; with both inputs at or above their high thresholds
\* it is stress with confidence 0.8, and with GSR at the low threshold and
\* HR 70 it is no_stress with confidence 0.8.
C24_TwoLabelsAndScenarios ==
    \A i \in Scored :
        /\ ScoredResult(i).stress_level \in Labels
        /\ BothHigh(i) => /\ ScoredResult(i).stress_level = "stress"
                          /\ ScoredResult(i).confidence = Q(8, 10)
        /\ LowAndSeventy(i) => /\ ScoredResult(i).stress_level = "no_stress"
                               /\ ScoredResult(i).confidence = Q(8, 10)

\* The scores and the confidences of the two scenarios are as stated.
ScenarioScoresAndConfidences ==
    \A i \in Scored :
        /\ BothHigh(i) => /\ ScoredFeatures(i).combined_score = Q(1, 1)
                          /\ ScoredResult(i).confidence = Q(8, 10)
        /\ LowAndSeventy(i) => /\ ScoredFeatures(i).combined_score = Q(1, 10)
                               /\ ScoredResult(i).confidence = Q(8, 10)

\* C25: every call of predict of the ensemble classifier returns stress or
\* no_stress, and the confidence get_confidence reports after it lies in
\* [0, 1], also when the model is not ready or the prediction raised.
C25_TwoLabelsAndConfidenceInRange ==
    stress_predictor # None
        => /\ last_prediction # "none" => last_prediction \in Labels
           /\ QLeq(Q(0, 1), get_confidence(Val(stress_predictor)))
           /\ QLeq(get_confidence(Val(stress_predictor)), Q(1, 1))

\* predict was called with features on a classifier that is not ready.
C25_Witness ==
    /\ stress_predictor # None
    /\ ~Val(stress_predictor).ready
    /\ last_features # None
    /\ last_prediction = "no_stress"

\* The history of the rule-based classifier never holds more than its
\* capacity.
RBHistoryBounded ==
    rb_predictor # None => RBPredictionsMade <= prediction_max_history

\* C26: in both classifier modes the length of the prediction history never
\* exceeds a fixed capacity (that of the rule-based classifier, 1000),
\* whatever the number of calls of predict.
C26_PredictionHistoriesBounded ==
    /\ RBHistoryBounded
    /\ stress_predictor # None => PredictionsMade <= prediction_max_history

\* play() is called in this step of the control thread.
PlaybackRequested == pc = "window" /\ pc' = "playback"

\* C27: in every cycle of the session loop playback is requested only after
\* a window was collected and a label was obtained in that cycle, and the
\* requested item belongs to stress_relief exactly when the label is stress
\* and to calming otherwise.
C27_PlaybackFollowsLabel ==
    [][PlaybackRequested
          => /\ window # None
             /\ prediction' \in Labels
             /\ music_category' = IF prediction' = "stress"
                                  THEN "stress_relief" ELSE "calming"
             /\ current_song' # None
             /\ Val(current_song') \in songs[music_category']]_vars

\* An item of calming is playing after the label no_stress.
C27_Witness ==
    /\ pc = "playback"
    /\ prediction = "no_stress"
    /\ music_category = "calming"
    /\ current_song # None
    /\ playing

\* C28: is_connected() of a running channel is true exactly when the
\* transport is open and either the history is non-empty or the loop has
\* been running for less than one liveness interval (the loops of this
\* specification start at time 0).
C28_ConnectedIffOpenAndWarmOrFed ==
    /\ gsr_running
          => (is_connected
                <=> (gsr_connected
                       /\ (readings_history # << >>
                             \/ now < liveness_threshold)))
    /\ hr_running
          => (hr_is_connected
                <=> (hr_connected
                       /\ (hr_readings_history # << >>
                             \/ now < liveness_threshold)))

\* The claim for the channels that have received a reading, where only the
\* HR channel agrees with it.
HRConnectedWhenFed ==
    (hr_running /\ hr_readings_history # << >>)
        => (hr_is_connected <=> hr_connected)

\* C29: when the reads of the serial port keep raising, the GSR channel
\* gives up after a bounded number of retries and is_connected() is false.
C29_FailingReadsDisconnect ==
    read_failures = MaxReadFailures => ~is_connected

\* A read that raises neither ends the worker nor the process.
FailedReadsKeepWorker ==
    [][read_failures' > read_failures
          => (gsr_thread' = "test" /\ pc' = pc /\ running' = running)]_vars

\* C30: a call of stop_sensor on a running channel leaves the running flag
\* false and the stop signal set; the worker then eventually leaves its
\* loop, and a worker that has left its loop publishes no reading;
\* stop_sensor on a channel that is not running sets no signal.
C30_StopEndsWorker ==
    /\ [][(gsr_running /\ ~gsr_running') => gsr_stop_event']_vars
    /\ [][(hr_running /\ ~hr_running') => hr_stop_event']_vars
    /\ [](gsr_stop_event => ~gsr_running)
    /\ [](hr_stop_event => ~hr_running)
    /\ (gsr_stop_event /\ gsr_thread \in {"test", "body"})
          ~> (gsr_thread = "exited")
    /\ (hr_stop_event /\ hr_thread \in {"test", "body"})
          ~> (hr_thread = "exited")
    /\ [][gsr_thread = "exited"
            => UNCHANGED <<latest_reading, readings_history>>]_vars
    /\ [][hr_thread = "exited"
            => UNCHANGED <<hr_latest_reading, hr_readings_history>>]_vars
    /\ [][(~gsr_running /\ ~gsr_running')
            => gsr_stop_event' = gsr_stop_event]_vars
    /\ [][(~hr_running /\ ~hr_running')
            => hr_stop_event' = hr_stop_event]_vars

\* Both channels were fed, then stopped, and both workers have left their
\* loops.
C30_Witness ==
    /\ gsr_stop_event /\ ~gsr_running /\ gsr_thread = "exited"
    /\ hr_stop_event /\ ~hr_running /\ hr_thread = "exited"
    /\ ChannelFrames > 0

\* C31: each wait loop of the control thread (the baseline wait, the
\* finger-detection wait and the playback monitor) is left again, whatever
\* the sensors and the player report.
C31_WaitLoopsEnd ==
    /\ (pc = "cal_gsr_wait") ~> (pc # "cal_gsr_wait")
    /\ (pc = "cal_hr_wait") ~> (pc # "cal_hr_wait")
    /\ (pc = "playback") ~> (pc # "playback")

\* The two wait loops of run_calibration are left after at most
\* CalWaitPolls polls.
CalibrationWaitsEnd ==
    /\ [](polls <= CalWaitPolls)
    /\ (pc = "cal_gsr_wait") ~> (pc # "cal_gsr_wait")
    /\ (pc = "cal_hr_wait") ~> (pc # "cal_hr_wait")

\* C32: the session state is changed only by the operations of the control
\* thread's state machine; a step of the serial worker, whatever message it
\* handles, leaves the session state unchanged.
C32_StateChangedOnlyByStateMachine ==
    /\ [][state' # state => (ControlThread \/ KeyboardInterrupt)]_vars
    /\ [][(\E l \in MessageLines : SerialPass(l)) => state' = state]_vars

\* A STOP and a telemetry frame were handled while a session was active,
\* and the session is still active.
C32_Witness ==
    /\ state = "session_active"
    /\ stop_enqueued_in = "session_active"
    /\ readings_history # << >>

\* C33: a poll of the control loop removes at most one event, the oldest
\* one, and an event is honored (the poll that removes it starts a state
\* transition) only when no handler of an earlier event is still running,
\* that is when the control thread is in main_loop.
C33_OneEventPerTickNoReentry ==
    [][Len(button_queue') < Len(button_queue)
          => /\ button_queue' = Tail(button_queue)
             /\ (state' # state => pc = "main")]_vars

\* The part of the claim about the queue: one event per poll, the oldest
\* first, and a poll of an empty queue lets the loop go on.
OnePollOneEventInOrder ==
    /\ [][Len(button_queue') < Len(button_queue)
            => button_queue' = Tail(button_queue)]_vars
    /\ []((pc = "playback" /\ playing /\ session_active
             /\ button_queue = << >>) => ENABLED PlaybackLoop)

\* The window of the current session cycle holds at least min_samples valid
\* readings and the baseline record stored by calibration.
FullWindowWithBaseline ==
    /\ pc = "window"
    /\ window # None
    /\ Val(window).baseline # None
    /\ Len(SelectSeq(Val(window).readings, LAMBDA r : r.valid)) >= min_samples

\* C34: for the window of a session cycle with at least min_samples valid
\* readings extract_features returns a feature map, although the window
\* carries the baseline record of the calibration.
C34_FullWindowGivesFeatures ==
    FullWindowWithBaseline => extract_features(Val(window)) # None

\* Every window of a session carries a baseline record: run_calibration
\* stores one before the session starts.
SessionWindowHasBaseline ==
    (pc = "window" /\ window # None) => Val(window).baseline # None

\* C35: after play() has returned True, is_playing() is true while the
\* track is playing and becomes false once the track has finished (or
\* play() is called again), however the caller and the thread that play()
\* started are interleaved.
C35_PlayingFollowsTrack ==
    /\ []((play_pc = "returned" /\ TrackPlaying) => playing)
    /\ (play_pc = "returned" /\ ~TrackPlaying)
          ~> (~playing \/ play_pc # "returned")

\* A thread that is still in its loop when play() has returned follows the
\* track: the flag stays set while the track plays and the caller does not
\* call play() again, and it is cleared after the track has finished.
LateThreadFollowsTrack ==
    /\ [][(play_pc = "returned" /\ playback_thread = "test" /\ playing
            /\ TrackPlaying /\ play_pc' = "returned") => playing']_vars
    /\ (play_pc = "returned" /\ playback_thread = "test" /\ ~TrackPlaying)
          ~> (~playing \/ play_pc # "returned")

\* C36: whatever calls of start_sensor and stop_sensor were made, at most
\* one worker thread of a channel is inside the read loop.
C36_OneWorkerPerChannel ==
    /\ ~(gsr_thread = "body" /\ gsr_orphan = "body")
    /\ ~(hr_thread = "body" /\ hr_orphan = "body")

\* When start_sensor is called only after the worker has left its loop (the
\* join did not time out) no earlier worker is left.
NoOrphanAfterJoin ==
    [][(gsr_thread \in {"none", "exited"} /\ gsr_orphan = "none")
          => gsr_orphan' = "none"]_vars

\* C37: a call of get_readings_in_timeframe made while the worker appends
\* and evicts returns only readings at or after its cutoff and leaves out no
\* reading at or after the cutoff that was in the history from the call to
\* the return.
C37_ReaderSkipsNothing ==
    reader.at = "returned" =>
        /\ \A k \in 1..Len(reader.returned) :
              reader.returned[k].timestamp >= reader.cutoff_time
        /\ \A k \in 1..Len(reader.called_with) :
              LET r == reader.called_with[k]
              IN (/\ r.timestamp >= reader.cutoff_time
                  /\ \E j \in 1..Len(hr_readings_history) :
                        hr_readings_history[j] = r)
                 => \E j \in 1..Len(reader.returned) : reader.returned[j] = r

\* What does hold of every call: the list returned holds only readings at or
\* after the cutoff, each of them a reading the worker stored, in the order
\* the worker stored them.
ReaderReturnsOnlyRecentReadings ==
    reader.at = "returned" =>
        /\ \A k \in 1..Len(reader.returned) :
              /\ reader.returned[k].timestamp >= reader.cutoff_time
              /\ \E j \in 1..Len(hr_arrived) :
                    hr_arrived[j] = reader.returned[k]
        /\ \A k \in 1..(Len(reader.returned) - 1) :
              reader.returned[k].timestamp < reader.returned[k + 1].timestamp

\* A call during which the worker evicted nothing leaves out no reading at or
\* after the cutoff.
ReaderCompleteWithoutEviction ==
    (/\ reader.at = "returned"
     /\ reader.called_with # << >>
     /\ Head(hr_readings_history) = Head(reader.called_with)) =>
        \A k \in 1..Len(reader.called_with) :
            reader.called_with[k].timestamp >= reader.cutoff_time
            => \E j \in 1..Len(reader.returned) :
                  reader.returned[j] = reader.called_with[k]

\* The prediction history of the ensemble classifier after a step.
HistoryAfter == Val(stress_predictor').prediction_history

\* C38: after each call of predict of the ensemble classifier,
\* get_confidence reports the confidence of the label that call returned: the
\* call appended a result with that label, or no earlier result is there for
\* get_confidence to report.
C38_ConfidenceBelongsToLabel ==
    [][Predict =>
         \/ /\ Len(HistoryAfter) = PredictionsMade + 1
            /\ HistoryAfter[Len(HistoryAfter)].stress_level = last_prediction'
         \/ HistoryAfter = << >>]_vars

\* What does hold: a call that appends a result returns the label of that
\* result and get_confidence reports its confidence; a call that appends
\* nothing returns no_stress and leaves get_confidence as it was.
AppendedResultIsPaired ==
    [][Predict =>
         IF Len(HistoryAfter) = PredictionsMade + 1
         THEN /\ HistoryAfter[Len(HistoryAfter)].stress_level = last_prediction'
              /\ get_confidence(Val(stress_predictor')) =
                    HistoryAfter[Len(HistoryAfter)].confidence
         ELSE /\ last_prediction' = "no_stress"
              /\ get_confidence(Val(stress_predictor')) =
                    get_confidence(Val(stress_predictor))]_vars

\* C39: whenever control is in main_loop, where handle_button_events is
\* called, the state is Idle; a step of handle_button_events never enters
\* stop_session, and stop_session is entered only from the playback loop.
C39_StopOnlyHonoredInPlayback ==
    /\ [](pc = "main" => state = "idle")
    /\ [][HandleButtonEvents => state' # "stopping"]_vars
    /\ [][(state' = "stopping" /\ state # "stopping") => PlaybackLoop]_vars

\* Control is back in main_loop after a calibration and a session, and the
\* next call of handle_button_events dequeues a Stop.
C39_Witness ==
    /\ pc = "main"
    /\ running
    /\ hr_has_baseline_data
    /\ button_queue # << >>
    /\ Head(button_queue) = "STOP"
    /\ ENABLED HandleButtonEvents

\* The collector takes a sample in this step and records a heart rate in it.
HeartRateRecorded ==
    /\ Len(collector'.readings) = Len(collector.readings) + 1
    /\ collector'.readings[Len(collector'.readings)].heart_rate # None

\* C40: every heart rate the collector records is the BPM of a latest HR
\* reading that has both finger_detected and valid_bpm.
C40_RecordedHeartRateIsValid ==
    [][HeartRateRecorded =>
          /\ hr_latest_reading # None
          /\ Val(hr_latest_reading).finger_detected
          /\ Val(hr_latest_reading).valid_bpm]_vars

\* What does hold: a recorded heart rate is the BPM of the latest HR reading,
\* and that reading has finger_detected; without a finger or without a
\* reading the sample holds no heart rate.
RecordedHeartRateHasFinger ==
    [][Len(collector'.readings) = Len(collector.readings) + 1 =>
          LET sample == collector'.readings[Len(collector'.readings)]
          IN IF hr_latest_reading # None
                /\ Val(hr_latest_reading).finger_detected
             THEN sample.heart_rate = Some(Val(hr_latest_reading).bpm)
             ELSE sample.heart_rate = None]_vars
====
